---- MODULE Spec2Model ----
(***************************************************************************)
(* The DualSense controller driver of avrgui                               *)
(* (src/avrgui/lib/controller/pythondualsense): the event dispatcher       *)
(* (lib/callback.py), the Button component (components/button.py) and the  *)
(* controller session with its polling thread (dualsense.py).              *)
(*                                                                         *)
(* SpecButton       drives one Button directly with any sequence of inputs.*)
(* SpecDpad         drives the Dpad directly with any sequence of codes.   *)
(* SpecSession      drives the session: open(), close(),                   *)
(*                  get_calibration_info() and the polling thread.         *)
(* SpecSessionFair  is SpecSession with a fair scheduler of the threads.   *)
(* SpecEncode       drives the output side: setters, force_update() and    *)
(*                  encode passes, one call at a time.                     *)
(* SpecTouchpadRace interleaves the setters of the touchpad LEDs with      *)
(*                  Touchpad.get_report(), one attribute access at a step. *)
(* SpecCallback     registers callables and coroutine functions on the     *)
(*                  events and dispatches them.                            *)
(* SpecTouchPoint   drives the two TouchPoints, SpecThumbstick the two     *)
(*                  Thumbsticks, directly with any sequence of inputs.     *)
(* SpecDecode       decodes any sequence of whole input reports.           *)
(* SpecLoop         runs the polling thread of an open session while the   *)
(*                  program calls setters.                                 *)
(* SpecOpenFair     is SpecSessionFair with a fair scheduler of the thread *)
(*                  that calls open().                                     *)
(* SpecOpenRace     lets two threads call open() on one session.           *)
(* SpecDispatch     follows one dispatch of an event call by call while    *)
(*                  callables are registered and unregistered on it.       *)
(* SpecObserve      dispatches the events of the input components to       *)
(*                  callables that read the accessors back.                *)
(* SpecReact        is SpecLoop with a callable that calls a setter.       *)
(* SpecFrame        encodes reports for both transports, byte by byte.     *)
(* SpecTransport    decodes one report as read over USB and over           *)
(*                  Bluetooth.                                             *)
(* SpecLifecycle    opens and closes the session between setter calls.     *)
(* SpecForce        calls force_update() while the polling thread runs.    *)
(***************************************************************************)
EXTENDS Integers, Sequences, FiniteSets, TLC

(***************************************************************************)
(* Bounds of the model.                                                    *)
(***************************************************************************)
\* callables registered on the events of a Button (SpecButton)
MaxCallbacks == 4
\* calls of open() that get past the is_open test
MaxOpens == 2

(***************************************************************************)
(* Program constants.                                                      *)
(***************************************************************************)
USB_REPORT_LENGTH == 64
BLUETOOTH_REPORT_LENGTH == 78

\* What a registered callable does when it is called: it returns, or it
\* raises.  TypeError is the one class Callback.__call__ catches;
\* ValueError stands for every other class of exception.
Behaviours == {"ok", "TypeError", "ValueError"}

\* The events (Callback objects) of the model.
ButtonEvents == {"cross.on_press", "cross.on_state"}
SessionEvents == {"on_state", "on_update", "on_battery_percent", "on_battery_state"}
DpadEvents == {"dpad.on_direction",
               "dpad.up.on_press", "dpad.up.on_state",
               "dpad.down.on_press", "dpad.down.on_state",
               "dpad.left.on_press", "dpad.left.on_state",
               "dpad.right.on_press", "dpad.right.on_state"}

\* The Buttons of the session next to cross and to the four of the d-pad
\* (dualsense.py:44-66); the sticks and the touchpad are Buttons too.
ButtonNames == {"square", "circle", "triangle", "share", "options", "ps", "mic_button",
                "left_bumper", "right_bumper", "left_stick", "right_stick", "touchpad"}
StickNames == {"left_stick", "right_stick"}
TouchPointNames == {"touch_point_1", "touch_point_2"}
TriggerNames == {"left_trigger", "right_trigger"}

\* the events of a component, by the name of the attribute
OnPress(b) == b \o ".on_press"
OnState(b) == b \o ".on_state"
OnMove(b) == b \o ".on_move"
OnTouch(b) == b \o ".on_touch"

ControlEvents == {OnPress(b) : b \in ButtonNames} \cup {OnState(b) : b \in ButtonNames}
                    \cup {OnMove(b) : b \in StickNames \cup TouchPointNames}
                    \cup {OnTouch(b) : b \in TouchPointNames}
Events == ButtonEvents \cup SessionEvents \cup DpadEvents \cup ControlEvents

VARIABLES
    callback_list,          \* Callback._callback_list of every event: the callables, by number
    async_callback_list,    \* Callback._async_callback_list of the events where it is not empty
    dispatch,               \* the Callback.__call__ in progress that is followed call by call
    cross,                  \* Dualsense.cross._pressed
    roll,                   \* Dualsense.gyroscope._roll
    battery_percent,        \* Dualsense._battery_percent
    battery_state,          \* Dualsense._battery_state
    dpad,                   \* Dualsense.dpad: _dpad_raw, _dpad_direction and its four Buttons
    buttons,                \* _pressed of every other Button of the session
    stick_pos,              \* Thumbstick._pos of the two sticks
    touch_points,           \* TouchPoint: _id, _selected and _pos of the two touch points
    trigger_pos,            \* the analog value of the two triggers
    device,                 \* Dualsense._device: 0 is None, k the handle of the k-th open()
    handle,                 \* state of the hid handle of every session
    partial,                \* state of the handle of the last open() whose setup failed
    update_thread,          \* Dualsense._update_thread: 0 is None, k the k-th thread
    update_thread_running,  \* Dualsense._update_thread_running
    last_state,             \* Dualsense._last_state
    loop_running,           \* Dualsense._loop_running
    use_bluetooth,          \* Dualsense._use_bluetooth
    report_length,          \* Dualsense._report_length
    identity,               \* _device_mac_address, _device_hardware_version, _device_firmware_version
    pc,                     \* position of every polling thread in Dualsense._update
    caller,                 \* position and locals of the thread calling open()
    racer,                  \* position and locals of a second thread calling open()
    fired,                  \* the event dispatches of the last step, in order
    op,                     \* the operation of the last step and how it ended
    log,                    \* per polling thread: what it has done so far
    touchpad,               \* Touchpad: _led_r, _led_g, _led_b, _led_changed, _fade_to_blue
    dirty,                  \* the dirty flag of every other output-bearing component
    brightness,             \* MicButton.led_brightness and PlayerLed.brightness
    brightness_dirty,       \* whether MicButton / PlayerLed has a brightness to send
    setter,                 \* the thread inside a setter of the touchpad LEDs
    encoder,                \* the polling thread inside Touchpad.get_report
    output_report,          \* the output report built by the last step
    writes                  \* the setter calls since the last encode pass, in call order

controls == <<buttons, stick_pos, touch_points, trigger_pos>>
components == <<cross, roll, battery_percent, battery_state, dpad, controls>>
session == <<device, handle, partial, update_thread, update_thread_running, last_state,
             loop_running, use_bluetooth, report_length, identity, pc, caller, racer,
             log>>
outputs == <<touchpad, dirty, brightness, brightness_dirty, setter, encoder, output_report,
            writes>>
callbacks == <<callback_list, async_callback_list, dispatch>>
vars == <<callbacks, components, session, outputs, fired, op>>

(***************************************************************************)
(* lib/callback.py                                                         *)
(***************************************************************************)
\* The argument a callable is called with: Callback.__call__ passes the
\* argument unless it is None (<<>> here), else it calls without argument.
PassedArgument(argument) ==
    IF argument # <<>> THEN argument ELSE <<>>

\* Callback.__call__ from the i-th callable of the list on: the callables
\* invoked so far are `invoked`, and beh[f] is what the callable f does when
\* it is called.  A TypeError is caught and printed, any other exception
\* leaves the loop and reaches the caller of the dispatch.
RECURSIVE CallFrom(_, _, _, _)
CallFrom(list, i, invoked, beh) ==
    IF i > Len(list) THEN [invoked |-> invoked, raised |-> "none"]
    ELSE IF beh[list[i]] \in {"ok", "TypeError"}
         THEN CallFrom(list, i + 1, Append(invoked, list[i]), beh)
         ELSE [invoked |-> Append(invoked, list[i]), raised |-> beh[list[i]]]

\* Callback._async_callback_list of the event ev (callback.py:20): empty
\* until a coroutine function is registered on ev
AsyncCallbackList(ev) ==
    IF ev \in DOMAIN async_callback_list THEN async_callback_list[ev] ELSE <<>>

\* One dispatch of the event ev with the given argument: a record of the
\* event, the argument passed, the callables invoked (in order), the
\* callables registered, and the exception that left the dispatch ("none"
\* when it returned); and the coroutine functions registered and those the
\* dispatch has handed to the event loop: __call__ reads _callback_list
\* only (line 28), so it hands over none.
CallbackCall(ev, argument, beh) ==
    LET r == CallFrom(callback_list[ev], 1, <<>>, beh)
    IN  [ev |-> ev, arg |-> PassedArgument(argument),
         invoked |-> r.invoked, raised |-> r.raised,
         registered |-> callback_list[ev],
         deferred |-> AsyncCallbackList(ev), scheduled |-> <<>>]

\* Callback.register for a plain (non-coroutine) callable.
register(list, callback) == Append(list, callback)

RECURSIVE SumLen(_, _)
SumLen(f, S) ==
    IF S = {} THEN 0
    ELSE LET e == CHOOSE x \in S : TRUE IN Len(f[e]) + SumLen(f, S \ {e})

\* The callables registered so far are numbered in the order of their
\* registration; each step that calls them draws what each of them does.
CallablesOf(evs) ==
    UNION {{callback_list[ev][i] : i \in 1 .. Len(callback_list[ev])} : ev \in evs}
BehavioursOf(evs) == [CallablesOf(evs) -> Behaviours]

(***************************************************************************)
(* components/button.py                                                    *)
(***************************************************************************)
\* A Button.update that fires without comparing with the stored state.
ButtonUpdateNoCompare(pressed, state, on_press, on_state, beh) ==
    LET p == CallbackCall(on_press, <<>>, beh)
        s == CallbackCall(on_state, <<state>>, beh)
    IN  IF state /\ p.raised # "none"
        THEN [pressed |-> state, fired |-> <<p>>, raised |-> p.raised]
        ELSE [pressed |-> state,
              fired |-> (IF state THEN <<p>> ELSE <<>>) \o <<s>>,
              raised |-> s.raised]

\* Button.update(state) on a button whose _pressed is `pressed` and whose
\* events are on_press and on_state: the new _pressed, the dispatches made
\* and the exception that leaves update.
ButtonUpdate(pressed, state, on_press, on_state, beh) ==
    IF state # pressed
    THEN LET p == CallbackCall(on_press, <<>>, beh)
             s == CallbackCall(on_state, <<state>>, beh)
         IN  IF state /\ p.raised # "none"
             THEN [pressed |-> state, fired |-> <<p>>, raised |-> p.raised]
             ELSE [pressed |-> state,
                   fired |-> (IF state THEN <<p>> ELSE <<>>) \o <<s>>,
                   raised |-> s.raised]
    ELSE [pressed |-> pressed, fired |-> <<>>, raised |-> "none"]

(***************************************************************************)
(* components/dpad.py                                                      *)
(***************************************************************************)
\* DpadDirection, an IntFlag whose members are numbered by auto(): 1, 2, 4,
\* 8 and 16.  A value is the set of its bits.
DpadDirection_NONE == {1}
DpadDirection_UP == {2}
DpadDirection_DOWN == {4}
DpadDirection_LEFT == {8}
DpadDirection_RIGHT == {16}

\* the raw codes of the d-pad
DpadCodes == 0 .. 8

\* DpadDirection.build_from_value(value), lines 70-86
build_from_value(value) ==
    LET up == value \in {7, 0, 1}
        down == value \in {3, 4, 5}
        left == value \in {5, 6, 7}
        right == value \in {1, 2, 3}
    IN  DpadDirection_NONE
            \cup (IF up THEN DpadDirection_UP ELSE {})
            \cup (IF down THEN DpadDirection_DOWN ELSE {})
            \cup (IF left THEN DpadDirection_LEFT ELSE {})
            \cup (IF right THEN DpadDirection_RIGHT ELSE {})

\* the properties up, down, left and right of a DpadDirection, lines 15-49
Has(direction, flag) == flag \subseteq direction

\* Dpad.__init__, lines 96-102
InitDpad ==
    dpad = [raw |-> 0, direction |-> DpadDirection_NONE,
            up |-> FALSE, down |-> FALSE, left |-> FALSE, right |-> FALSE]

\* Dpad.update(value), lines 132-141, on the Dpad d: the Dpad after it, the
\* dispatches made and the exception that leaves update.  A dispatch that
\* raises ends the update before the Buttons after it are updated.
DpadUpdate(d, value, beh) ==
    LET direction == build_from_value(value)
        e == CallbackCall("dpad.on_direction", <<direction>>, beh)
        u == ButtonUpdate(d.up, Has(direction, DpadDirection_UP),
                          "dpad.up.on_press", "dpad.up.on_state", beh)
        w == ButtonUpdate(d.down, Has(direction, DpadDirection_DOWN),
                          "dpad.down.on_press", "dpad.down.on_state", beh)
        l == ButtonUpdate(d.left, Has(direction, DpadDirection_LEFT),
                          "dpad.left.on_press", "dpad.left.on_state", beh)
        r == ButtonUpdate(d.right, Has(direction, DpadDirection_RIGHT),
                          "dpad.right.on_press", "dpad.right.on_state", beh)
        d0 == [d EXCEPT !.raw = value, !.direction = direction]
        d1 == [d0 EXCEPT !.up = u.pressed]
        d2 == [d1 EXCEPT !.down = w.pressed]
        d3 == [d2 EXCEPT !.left = l.pressed]
        d4 == [d3 EXCEPT !.right = r.pressed]
    IN  IF value = d.raw
        THEN [dpad |-> d, fired |-> <<>>, raised |-> "none"]
        ELSE IF e.raised # "none"
        THEN [dpad |-> d0, fired |-> <<e>>, raised |-> e.raised]
        ELSE IF u.raised # "none"
        THEN [dpad |-> d1, fired |-> <<e>> \o u.fired, raised |-> u.raised]
        ELSE IF w.raised # "none"
        THEN [dpad |-> d2, fired |-> <<e>> \o u.fired \o w.fired, raised |-> w.raised]
        ELSE IF l.raised # "none"
        THEN [dpad |-> d3, fired |-> <<e>> \o u.fired \o w.fired \o l.fired,
              raised |-> l.raised]
        ELSE [dpad |-> d4, fired |-> <<e>> \o u.fired \o w.fired \o l.fired \o r.fired,
              raised |-> r.raised]

(***************************************************************************)
(* components/touchpad.py: TouchPoint                                      *)
(***************************************************************************)
\* TouchPoint.__init__, lines 24-26
NewTouchPoint == [id |-> -1, selected |-> FALSE, pos |-> <<-1, -1>>]

\* tuple(point), lines 31-38: what the touch point reports as its position
TouchPointIter(tp) == IF tp.selected THEN tp.pos ELSE <<-1, -1>>

\* TouchPoint.update(touch_point_report), lines 95-105, on the touch point
\* tp whose events are on_touch and on_move: the touch point after it, the
\* dispatches made and the exception that leaves update.  The report is the
\* tuple (id, selected, x, y).
TouchPointUpdate(tp, touch_point_report, on_touch, on_move, beh) ==
    LET selected == touch_point_report[2]
        pos == <<touch_point_report[3], touch_point_report[4]>>
        tp0 == [tp EXCEPT !.id = touch_point_report[1]]
        tp1 == IF selected # tp.selected THEN [tp0 EXCEPT !.selected = selected] ELSE tp0
        tp2 == IF pos # tp.pos THEN [tp1 EXCEPT !.pos = pos] ELSE tp1
        t == CallbackCall(on_touch, <<SubSeq(touch_point_report, 1, 2)>>, beh)
        m == CallbackCall(on_move, <<pos>>, beh)
        tf == IF selected # tp.selected THEN <<t>> ELSE <<>>
        mf == IF pos # tp.pos THEN <<m>> ELSE <<>>
    IN  IF selected # tp.selected /\ t.raised # "none"
        THEN [touch_point |-> tp1, fired |-> tf, raised |-> t.raised]
        ELSE [touch_point |-> tp2, fired |-> tf \o mf,
              raised |-> IF pos # tp.pos THEN m.raised ELSE "none"]

(***************************************************************************)
(* components/thumbstick.py                                                *)
(***************************************************************************)
\* no position argument (pos=None)
NoPos == <<>>

\* Thumbstick.update(pressed, pos), lines 54-57, on the stick with the name
\* b, whose _pressed is `pressed_now` and whose _pos is `pos_now`: both
\* after it, the dispatches made and the exception that leaves update.
ThumbstickUpdate(b, pressed_now, pos_now, pressed, pos, beh) ==
    LET u == ButtonUpdate(pressed_now, pressed, OnPress(b), OnState(b), beh)
        moves == pos # NoPos /\ pos # pos_now
        m == CallbackCall(OnMove(b), <<pos>>, beh)
    IN  IF u.raised # "none"
        THEN [pressed |-> u.pressed, pos |-> pos_now, fired |-> u.fired, raised |-> u.raised]
        ELSE IF moves
        THEN [pressed |-> u.pressed, pos |-> pos, fired |-> u.fired \o <<m>>,
              raised |-> m.raised]
        ELSE [pressed |-> u.pressed, pos |-> pos_now, fired |-> u.fired, raised |-> "none"]

\* The controls after their constructors: Button.__init__ (button.py:18),
\* Thumbstick.__init__ (thumbstick.py:17), TouchPoint.__init__, and the
\* triggers at rest.
InitControls ==
    /\ buttons = [b \in ButtonNames |-> FALSE]
    /\ stick_pos = [b \in StickNames |-> <<0, 0>>]
    /\ touch_points = [p \in TouchPointNames |-> NewTouchPoint]
    /\ trigger_pos = [g \in TriggerNames |-> 0]

(***************************************************************************)
(* Initial state: Dualsense.__init__ and the constructors it calls.        *)
(***************************************************************************)
Opens == 1 .. MaxOpens

\* The record of a step: the operation, the polling thread that made it
\* (0: a caller), its boolean argument, the length of the buffer read, the
\* place inside the operation that decided it, and the exception it raised.
Op(name, t, state, len, step, raised) ==
    [name |-> name, t |-> t, state |-> state, len |-> len, step |-> step,
     raised |-> raised]

\* The thread that calls open(): its place in open(), the number of opens
\* that got past the test of is_open, and the argument hold of the call
\* (FALSE outside of a call).
Idle(k) == [pc |-> "idle", k |-> k, hold |-> FALSE]

\* A second thread of the program, outside open().
RacerIdle == [pc |-> "idle", k |-> 0]

NoOp == Op("none", 0, FALSE, 0, "none", "none")

\* No Callback.__call__ is followed call by call.  Of one that is: the
\* event, the number of callables the loop of line 28 has taken from the
\* list, the list when the loop started, the callables invoked so far, and
\* those of the list at the start that were unregistered before their
\* turn.
NoDispatch == [pc |-> "idle", ev |-> "none", i |-> 0, start |-> <<>>, invoked |-> <<>>,
               gone |-> {}]

\* What a polling thread has done: the arguments of its on_state dispatches,
\* whether it has read a report of the expected length, why it left its
\* loop ("none" while it has not), the device calls and report builds that
\* have returned in the iteration it is in (none between two iterations),
\* and whether a write of it has returned.  The next open() that starts a
\* thread forgets the threads that have ended.
NoLog == [conn |-> <<>>, good |-> FALSE, cause |-> "none", iter |-> <<>>, done |-> FALSE]

\* The output-bearing components next to the touchpad (dualsense.py:322-334).
OutputComponents == {"mic_button", "left_trigger", "right_trigger", "player_led",
                     "left_rumble", "right_rumble", "speaker", "microphone"}

\* The two owners of the brightness register.
BrightnessOwners == {"mic_button", "player_led"}

\* BrightnessLevel: HIGH, MEDIUM, LOW
BrightnessLevels == {0, 1, 2}

\* The setter thread and the encoder outside of the touchpad code.
SetterIdle == [pc |-> "idle", color |-> <<0, 0, 0>>]
EncoderIdle == [pc |-> "idle", flag |-> {}, led_flag |-> {}, led_mode |-> 0,
                r |-> 0, g |-> 0]

\* No output report.
NoReport == <<>>

\* Touchpad.__init__ (touchpad.py:115-120), with no thread inside the
\* touchpad code.
InitTouchpad ==
    /\ touchpad = [led_r |-> 0, led_g |-> 0, led_b |-> 0, led_changed |-> FALSE,
                   fade_to_blue |-> FALSE]
    /\ setter = SetterIdle
    /\ encoder = EncoderIdle

\* The output side after the constructors: the other components have
\* nothing dirty and the brightest level, and no report has been built.
InitOutputs ==
    /\ InitTouchpad
    /\ dirty = [c \in OutputComponents |-> FALSE]
    /\ brightness = [c \in BrightnessOwners |-> 0]
    /\ brightness_dirty = [c \in BrightnessOwners |-> FALSE]
    /\ output_report = NoReport
    /\ writes = <<>>

Init ==
    /\ callback_list = [e \in Events |-> <<>>]
    /\ async_callback_list = [e \in {} |-> <<>>]
    /\ dispatch = NoDispatch
    /\ cross = FALSE
    /\ roll = 0
    /\ battery_percent = 0
    /\ battery_state = "UNKNOWN"
    /\ InitDpad
    /\ InitControls
    /\ device = 0
    /\ handle = [k \in Opens |-> "unopened"]
    /\ partial = "none"
    /\ update_thread = 0
    /\ update_thread_running = FALSE
    /\ last_state = FALSE
    /\ loop_running = FALSE
    /\ use_bluetooth = FALSE
    /\ report_length = USB_REPORT_LENGTH
    /\ identity = 0
    /\ pc = [k \in Opens |-> "unborn"]
    /\ caller = Idle(0)
    /\ racer = RacerIdle
    /\ fired = <<>>
    /\ op = NoOp
    /\ log = [k \in Opens |-> NoLog]
    /\ InitOutputs

\* The events Dualsense._update_inputs can fire.
DecodeEvents == {"cross.on_press", "cross.on_state", "on_battery_percent",
                 "on_battery_state"}

\* The session once the program has registered its callables, as avrgui.py
\* does before the first open(): one callable on a component event, on a
\* battery event and on each event of the session.
Subscribed == [e \in Events |->
                 CASE e = "cross.on_state" -> <<1>>
                   [] e = "on_battery_percent" -> <<2>>
                   [] e = "on_state" -> <<3>>
                   [] e = "on_update" -> <<4>>
                   [] OTHER -> <<>>]

InitSession ==
    /\ callback_list = Subscribed
    /\ async_callback_list = [e \in {} |-> <<>>]
    /\ dispatch = NoDispatch
    /\ cross = FALSE
    /\ roll = 0
    /\ battery_percent = 0
    /\ battery_state = "UNKNOWN"
    /\ InitDpad
    /\ InitControls
    /\ device = 0
    /\ handle = [k \in Opens |-> "unopened"]
    /\ partial = "none"
    /\ update_thread = 0
    /\ update_thread_running = FALSE
    /\ last_state = FALSE
    /\ loop_running = FALSE
    /\ use_bluetooth = FALSE
    /\ report_length = USB_REPORT_LENGTH
    /\ identity = 0
    /\ pc = [k \in Opens |-> "unborn"]
    /\ caller = Idle(0)
    /\ racer = RacerIdle
    /\ fired = <<>>
    /\ op = NoOp
    /\ log = [k \in Opens |-> NoLog]
    /\ InitOutputs

(***************************************************************************)
(* SpecButton: a Button driven directly.                                   *)
(***************************************************************************)
\* on_press.register(f) / on_state.register(f) of the button
RegisterButton(ev) ==
    /\ SumLen(callback_list, Events) < MaxCallbacks
    /\ callback_list' = [callback_list EXCEPT
                            ![ev] = register(@, SumLen(callback_list, Events) + 1)]
    /\ fired' = <<>>
    /\ op' = Op("register", 0, FALSE, 0, ev, "none")
    /\ UNCHANGED <<async_callback_list, dispatch, components, session, outputs>>

\* cross.update(state)
CrossUpdate(state, beh) ==
    LET r == ButtonUpdate(cross, state, "cross.on_press", "cross.on_state", beh)
    IN  /\ cross' = r.pressed
        /\ fired' = r.fired
        /\ op' = Op("update", 0, state, 0, "none", r.raised)
        /\ UNCHANGED <<callbacks, roll, battery_percent, battery_state, dpad, controls,
                       session, outputs>>

NextButton ==
    \/ \E ev \in ButtonEvents : RegisterButton(ev)
    \/ \E state \in BOOLEAN, beh \in BehavioursOf(ButtonEvents) : CrossUpdate(state, beh)

SpecButton == Init /\ [][NextButton]_vars

(***************************************************************************)
(* SpecCallback: callables and coroutine functions registered on the       *)
(* events of the session, and the events called directly.                  *)
(***************************************************************************)
\* Callback.register(callback), line 61: a coroutine function is filed in
\* _async_callback_list, any other callable in _callback_list.  The
\* callables are numbered in the order of their registration.
Register(ev, coroutine) ==
    LET callback == SumLen(callback_list, Events)
                    + SumLen(async_callback_list, DOMAIN async_callback_list) + 1
    IN  /\ callback <= MaxCallbacks
        /\ IF coroutine
           THEN /\ async_callback_list' =
                       [e \in DOMAIN async_callback_list \cup {ev} |->
                           IF e = ev THEN Append(AsyncCallbackList(ev), callback)
                           ELSE async_callback_list[e]]
                /\ UNCHANGED callback_list
           ELSE /\ callback_list' = [callback_list EXCEPT ![ev] = register(@, callback)]
                /\ UNCHANGED async_callback_list
        /\ fired' = <<>>
        /\ op' = Op("register", 0, coroutine, 0, ev, "none")
        /\ UNCHANGED <<dispatch, components, session, outputs>>

\* the arguments the session passes to its events: none to on_update (line
\* 362), a boolean to on_state (lines 352, 368)
ArgumentsOf(ev) == IF ev = "on_update" THEN {<<>>} ELSE {<<TRUE>>, <<FALSE>>}

\* Callback.__call__(argument) of the event ev
Call(ev, argument, beh) ==
    LET c == CallbackCall(ev, argument, beh)
    IN  /\ fired' = <<c>>
        /\ op' = Op("call", 0, FALSE, 0, ev, c.raised)
        /\ UNCHANGED <<callbacks, components, session, outputs>>

NextCallback ==
    \/ \E ev \in {"on_update", "on_state"}, coroutine \in BOOLEAN : Register(ev, coroutine)
    \/ \E ev \in {"on_update", "on_state"} :
          \E argument \in ArgumentsOf(ev), beh \in BehavioursOf({ev}) : Call(ev, argument, beh)

SpecCallback == Init /\ [][NextCallback]_vars

(***************************************************************************)
(* SpecDispatch: one event whose __call__ is followed call by call, while  *)
(* the callables it invokes and another thread register and unregister     *)
(* callables on it.  No method of Callback takes a lock.                   *)
(***************************************************************************)
\* the callables the program registers on the event and removes from it
MaxCallables == 3
Callables == 1 .. MaxCallables

\* the elements of a list
Range(list) == {list[j] : j \in 1 .. Len(list)}

\* list.remove(callback), lines 70 and 72
Remove(list, callback) ==
    LET j == CHOOSE x \in 1 .. Len(list) :
                 list[x] = callback /\ \A y \in 1 .. (x - 1) : list[y] # callback
    IN  SubSeq(list, 1, j - 1) \o SubSeq(list, j + 1, Len(list))

\* register(callback) (line 61) or unregister(callback) (lines 69-70) of a
\* plain callable on the list
Changed(list, call, callback) ==
    CASE call = "register" -> Append(list, callback)
      [] call = "unregister" /\ callback \in Range(list) -> Remove(list, callback)
      [] OTHER -> list

\* the dispatch d after that call: a callable of the list at the start
\* that is unregistered before it was invoked is no longer owed a call
Noted(d, ev, call, callback) ==
    IF /\ d.pc = "running" /\ d.ev = ev /\ call = "unregister"
       /\ callback \in Range(d.start) /\ callback \notin Range(d.invoked)
    THEN [d EXCEPT !.gone = @ \cup {callback}]
    ELSE d

\* register or unregister called by a thread that is not dispatching
Change(ev, call, callback) ==
    /\ call = "register" => callback \notin Range(callback_list[ev])
    /\ callback_list' = [callback_list EXCEPT ![ev] = Changed(@, call, callback)]
    /\ dispatch' = Noted(dispatch, ev, call, callback)
    /\ fired' = <<>>
    /\ op' = Op(call, 0, FALSE, callback, ev, "none")
    /\ UNCHANGED <<async_callback_list, components, session, outputs>>

\* line 28: __call__ starts to iterate over _callback_list
DispatchBegin(ev) ==
    /\ dispatch.pc = "idle"
    /\ dispatch' = [pc |-> "running", ev |-> ev, i |-> 0, start |-> callback_list[ev],
                    invoked |-> <<>>, gone |-> {}]
    /\ fired' = <<>>
    /\ op' = Op("call", 1, FALSE, 0, "begin", "none")
    /\ UNCHANGED <<callback_list, async_callback_list, components, session, outputs>>

\* What a callable does when it is invoked: it returns or raises, or it
\* registers or unregisters a callable on the event and returns.
Bodies ==
    [call : {"ok", "TypeError", "ValueError"}, callback : {0}]
        \cup [call : {"register", "unregister"}, callback : Callables]

\* lines 28-36, one turn of the loop: the iterator takes the element at its
\* index from the list as it is now, or ends when the index has reached
\* the length; the callable taken is invoked and does `body`; an exception
\* other than TypeError ends the dispatch.
DispatchNext(body) ==
    LET ev == dispatch.ev
        list == callback_list[ev]
        callback == list[dispatch.i + 1]
        d == [dispatch EXCEPT !.i = @ + 1, !.invoked = Append(@, callback)]
    IN
    /\ dispatch.pc = "running"
    /\ fired' = <<>>
    /\ IF dispatch.i >= Len(list)
       THEN /\ body.call = "ok"
            /\ dispatch' = [dispatch EXCEPT !.pc = "idle"]
            /\ op' = Op("call", 1, FALSE, 0, "end", "none")
            /\ UNCHANGED callback_list
       ELSE /\ Len(dispatch.invoked) <= MaxCallables
            /\ body.call = "register" => body.callback \notin Range(list)
            /\ callback_list' = [callback_list EXCEPT
                                    ![ev] = Changed(@, body.call, body.callback)]
            /\ dispatch' = IF body.call = "ValueError" THEN [d EXCEPT !.pc = "idle"]
                           ELSE Noted(d, ev, body.call, body.callback)
            /\ op' = Op("call", 1, FALSE, callback,
                        IF body.call = "ValueError" THEN "end" ELSE body.call,
                        IF body.call = "ValueError" THEN "ValueError" ELSE "none")
    /\ UNCHANGED <<async_callback_list, components, session, outputs>>

NextDispatch ==
    \/ \E call \in {"register", "unregister"}, callback \in Callables :
            Change("on_update", call, callback)
    \/ DispatchBegin("on_update")
    \/ \E body \in Bodies : DispatchNext(body)

SpecDispatch == Init /\ [][NextDispatch]_vars

(***************************************************************************)
(* SpecDpad: a Dpad driven directly.                                       *)
(***************************************************************************)
\* The callables on the events of the d-pad: the one the program registers
\* on on_direction (avrgui.py:565), and one on an event of two of its
\* Buttons.
DpadSubscribed == [e \in Events |->
                     CASE e = "dpad.on_direction" -> <<1>>
                       [] e = "dpad.up.on_state" -> <<2>>
                       [] e = "dpad.right.on_press" -> <<3>>
                       [] OTHER -> <<>>]

InitSubscribedDpad ==
    /\ callback_list = DpadSubscribed
    /\ async_callback_list = [e \in {} |-> <<>>]
    /\ dispatch = NoDispatch
    /\ cross = FALSE
    /\ roll = 0
    /\ battery_percent = 0
    /\ battery_state = "UNKNOWN"
    /\ InitDpad
    /\ InitControls
    /\ device = 0
    /\ handle = [k \in Opens |-> "unopened"]
    /\ partial = "none"
    /\ update_thread = 0
    /\ update_thread_running = FALSE
    /\ last_state = FALSE
    /\ loop_running = FALSE
    /\ use_bluetooth = FALSE
    /\ report_length = USB_REPORT_LENGTH
    /\ identity = 0
    /\ pc = [k \in Opens |-> "unborn"]
    /\ caller = Idle(0)
    /\ racer = RacerIdle
    /\ fired = <<>>
    /\ op = NoOp
    /\ log = [k \in Opens |-> NoLog]
    /\ InitOutputs

\* dpad.update(value); the step records the raw code passed as op.len and
\* whether the code differed from the stored one as op.state
UpdateDpad(value, beh) ==
    LET r == DpadUpdate(dpad, value, beh)
    IN  /\ dpad' = r.dpad
        /\ fired' = r.fired
        /\ op' = Op("dpad.update", 0, value # dpad.raw, value, "none", r.raised)
        /\ UNCHANGED <<callbacks, cross, roll, battery_percent, battery_state, controls,
                       session, outputs>>

NextDpad ==
    \E value \in DpadCodes, beh \in BehavioursOf(DpadEvents) : UpdateDpad(value, beh)

SpecDpad == InitSubscribedDpad /\ [][NextDpad]_vars

(***************************************************************************)
(* SpecTouchPoint: the two TouchPoints driven directly.                    *)
(***************************************************************************)
\* The session after Dualsense.__init__, whatever is registered.
Constructed ==
    /\ async_callback_list = [e \in {} |-> <<>>]
    /\ dispatch = NoDispatch
    /\ cross = FALSE
    /\ roll = 0
    /\ battery_percent = 0
    /\ battery_state = "UNKNOWN"
    /\ InitDpad
    /\ InitControls
    /\ device = 0
    /\ handle = [k \in Opens |-> "unopened"]
    /\ partial = "none"
    /\ update_thread = 0
    /\ update_thread_running = FALSE
    /\ last_state = FALSE
    /\ loop_running = FALSE
    /\ use_bluetooth = FALSE
    /\ report_length = USB_REPORT_LENGTH
    /\ identity = 0
    /\ pc = [k \in Opens |-> "unborn"]
    /\ caller = Idle(0)
    /\ racer = RacerIdle
    /\ fired = <<>>
    /\ op = NoOp
    /\ log = [k \in Opens |-> NoLog]
    /\ InitOutputs

\* The touch point reports of the model: the 7-bit id, the active flag and
\* the 12-bit coordinates (dualsense.py:407-413).
TouchIds == {0, 1}
TouchXs == {0, 1919}
TouchYs == {0, 1079}
TouchPointReports == {<<i, a, x, y>> : i \in TouchIds, a \in BOOLEAN, x \in TouchXs, y \in TouchYs}

\* A callable on each event of the first touch point.
TouchSubscribed == [e \in Events |->
                      CASE e = "touch_point_1.on_touch" -> <<1>>
                        [] e = "touch_point_1.on_move" -> <<2>>
                        [] OTHER -> <<>>]

InitTouchPoints == callback_list = TouchSubscribed /\ Constructed

\* touch_point.update(touch_point_report) of the touch point p; the step
\* records the report as op.step
UpdateTouchPoint(p, touch_point_report, beh) ==
    LET r == TouchPointUpdate(touch_points[p], touch_point_report, OnTouch(p), OnMove(p), beh)
    IN  /\ touch_points' = [touch_points EXCEPT ![p] = r.touch_point]
        /\ fired' = r.fired
        /\ op' = Op("touch_point.update", p, touch_point_report[2], 0, touch_point_report,
                    r.raised)
        /\ UNCHANGED <<callbacks, cross, roll, battery_percent, battery_state, dpad,
                       buttons, stick_pos, trigger_pos, session, outputs>>

NextTouchPoint ==
    \E p \in TouchPointNames, touch_point_report \in TouchPointReports,
       beh \in BehavioursOf({OnTouch(q) : q \in TouchPointNames}
                                \cup {OnMove(q) : q \in TouchPointNames}) :
        UpdateTouchPoint(p, touch_point_report, beh)

SpecTouchPoint == InitTouchPoints /\ [][NextTouchPoint]_vars

(***************************************************************************)
(* SpecThumbstick: the two Thumbsticks driven directly.                    *)
(***************************************************************************)
\* The positions of the model: the centre of decoding 127, the two corners
\* of the range, and no position.
StickPositions == {<<0, 0>>, <<-127, 128>>, <<128, -127>>}
StickArguments == StickPositions \cup {NoPos}

\* The callables the program registers on the left stick (avrgui.py:562,
\* 566).
StickSubscribed == [e \in Events |->
                      CASE e = "left_stick.on_move" -> <<1>>
                        [] e = "left_stick.on_press" -> <<2>>
                        [] OTHER -> <<>>]

InitThumbsticks == callback_list = StickSubscribed /\ Constructed

\* stick.update(pressed, pos) of the stick b; the step records pressed as
\* op.state and pos as op.step
UpdateThumbstick(b, pressed, pos, beh) ==
    LET r == ThumbstickUpdate(b, buttons[b], stick_pos[b], pressed, pos, beh)
    IN  /\ buttons' = [buttons EXCEPT ![b] = r.pressed]
        /\ stick_pos' = [stick_pos EXCEPT ![b] = r.pos]
        /\ fired' = r.fired
        /\ op' = Op("stick.update", b, pressed, 0, pos, r.raised)
        /\ UNCHANGED <<callbacks, cross, roll, battery_percent, battery_state, dpad,
                       touch_points, trigger_pos, session, outputs>>

NextThumbstick ==
    \E b \in StickNames, pressed \in BOOLEAN, pos \in StickArguments,
       beh \in BehavioursOf({OnPress(q) : q \in StickNames} \cup {OnState(q) : q \in StickNames}
                                \cup {OnMove(q) : q \in StickNames}) :
        UpdateThumbstick(b, pressed, pos, beh)

SpecThumbstick == InitThumbsticks /\ [][NextThumbstick]_vars

(***************************************************************************)
(* dualsense.py: decoding an input report                                  *)
(***************************************************************************)
\* The fields of an input report the model decodes: the cross bit of the
\* symbol byte, the gyroscope roll and the battery status byte.
Rolls == {0, 7}
StatusBytes == {0, 24}
Reports == [cross : BOOLEAN, roll : Rolls, status : StatusBytes]

\* The buffer lengths a read can return: nothing (the read timed out), a
\* whole report of either transport.
ReadLengths == {0, USB_REPORT_LENGTH, BLUETOOTH_REPORT_LENGTH}

Min(a, b) == IF a < b THEN a ELSE b

\* battery percent of a status byte (dualsense.py:427)
BatteryPercent(status) == Min(((status % 16) * 10) + 5, 100)

\* BatteryState.find and the table _BATTERY_STATES
BatteryStateFind(num) ==
    CASE num = 0 -> "DISCHARGING"
      [] num = 1 -> "FULL"
      [] num = 2 -> "CHARGING"
      [] num = 10 -> "INCORRECT_VOLTAGE"
      [] num = 11 -> "TEMPERATURE_ERROR"
      [] num = 15 -> "ERROR"
      [] OTHER -> "UNKNOWN"

\* Dualsense._update_inputs(report): the component state after it, the
\* dispatches it made and the exception that left it.  A dispatch that
\* raises ends the decode: the fields after it are not decoded, and a
\* battery value whose dispatch raised is not stored.
UpdateInputs(report, beh) ==
    LET b == ButtonUpdate(cross, report.cross, "cross.on_press", "cross.on_state", beh)
        percent == BatteryPercent(report.status)
        state == BatteryStateFind((report.status \div 16) % 16)
        p == CallbackCall("on_battery_percent", <<percent>>, beh)
        s == CallbackCall("on_battery_state", <<state>>, beh)
        pf == IF percent # battery_percent THEN <<p>> ELSE <<>>
        sf == IF state # battery_state THEN <<s>> ELSE <<>>
    IN  IF b.raised # "none"
        THEN [cross |-> b.pressed, roll |-> roll, battery_percent |-> battery_percent,
              battery_state |-> battery_state, fired |-> b.fired, raised |-> b.raised]
        ELSE IF percent # battery_percent /\ p.raised # "none"
        THEN [cross |-> b.pressed, roll |-> report.roll, battery_percent |-> battery_percent,
              battery_state |-> battery_state, fired |-> b.fired \o pf, raised |-> p.raised]
        ELSE IF state # battery_state /\ s.raised # "none"
        THEN [cross |-> b.pressed, roll |-> report.roll, battery_percent |-> percent,
              battery_state |-> battery_state, fired |-> b.fired \o pf \o sf,
              raised |-> s.raised]
        ELSE [cross |-> b.pressed, roll |-> report.roll, battery_percent |-> percent,
              battery_state |-> state, fired |-> b.fired \o pf \o sf, raised |-> "none"]

(***************************************************************************)
(* dualsense.py: decoding every field of an input report.  A report is a   *)
(* function from the offsets 0 .. length-1 to bytes.                       *)
(***************************************************************************)
\* x & m != 0 for a mask m of one bit
Bit(x, m) == (x \div m) % 2 = 1

\* A decode that leaves the Bluetooth buffer as it was read.
PopNothing(input_report) == input_report

\* input_report.pop(1), line 380
Pop1(input_report) ==
    LET n == Cardinality(DOMAIN input_report)
    IN  [i \in 0 .. (n - 2) |-> IF i < 1 THEN input_report[i] ELSE input_report[i + 1]]

\* int.from_bytes([lo, hi], byteorder='little', signed=True), lines 421-423
SignedLE16(lo, hi) ==
    LET v == lo + (256 * hi) IN IF v >= 32768 THEN v - 65536 ELSE v

\* The values _update_inputs decodes and stores: the state of the session's
\* input components as one record.
InputsNow ==
    [cross |-> cross, buttons |-> buttons, dpad |-> dpad, trigger_pos |-> trigger_pos,
     stick_pos |-> stick_pos, touch_points |-> touch_points, roll |-> roll,
     battery_percent |-> battery_percent, battery_state |-> battery_state]

\* The component updates of _update_inputs, lines 382-434, in the order of
\* the code, for the report r (after line 380).
InputSteps(r) ==
    LET symbol_buttons == r[8]
        top_buttons == r[9]
        ps_mic_touch_buttons == r[10]
        touch_point_1_x == ((r[35] % 16) * 256) + r[34]
        touch_point_1_y == (r[36] * 16) + (r[35] \div 16)
        touch_point_2_x == ((r[39] % 16) * 256) + r[38]
        touch_point_2_y == (r[40] * 16) + (r[39] \div 16)
        status == r[53]
    IN  << [kind |-> "button", name |-> "square", value |-> Bit(symbol_buttons, 16)],
           [kind |-> "button", name |-> "cross", value |-> Bit(symbol_buttons, 32)],
           [kind |-> "button", name |-> "circle", value |-> Bit(symbol_buttons, 64)],
           [kind |-> "button", name |-> "triangle", value |-> Bit(symbol_buttons, 128)],
           [kind |-> "dpad", name |-> "dpad", value |-> symbol_buttons % 16],
           [kind |-> "button", name |-> "share", value |-> Bit(top_buttons, 16)],
           [kind |-> "button", name |-> "options", value |-> Bit(top_buttons, 32)],
           [kind |-> "button", name |-> "ps", value |-> Bit(ps_mic_touch_buttons, 1)],
           [kind |-> "button", name |-> "mic_button", value |-> Bit(ps_mic_touch_buttons, 4)],
           [kind |-> "button", name |-> "left_bumper", value |-> Bit(top_buttons, 1)],
           [kind |-> "button", name |-> "right_bumper", value |-> Bit(top_buttons, 2)],
           [kind |-> "trigger", name |-> "left_trigger", value |-> r[5]],
           [kind |-> "trigger", name |-> "right_trigger", value |-> r[6]],
           [kind |-> "stick", name |-> "left_stick", value |-> Bit(top_buttons, 64),
            pos |-> <<r[1] - 127, r[2] - 127>>],
           [kind |-> "stick", name |-> "right_stick", value |-> Bit(top_buttons, 128),
            pos |-> <<r[3] - 127, r[4] - 127>>],
           [kind |-> "button", name |-> "touchpad", value |-> Bit(ps_mic_touch_buttons, 2)],
           [kind |-> "touch_point", name |-> "touch_point_1",
            value |-> <<r[33] % 128, ~Bit(r[33], 128), touch_point_1_x, touch_point_1_y>>],
           [kind |-> "touch_point", name |-> "touch_point_2",
            value |-> <<r[37] % 128, ~Bit(r[37], 128), touch_point_2_x, touch_point_2_y>>],
           [kind |-> "gyroscope", name |-> "gyroscope", value |-> SignedLE16(r[22], r[23])],
           [kind |-> "battery_percent", name |-> "battery",
            value |-> Min(((status % 16) * 10) + 5, 100)],
           [kind |-> "battery_state", name |-> "battery",
            value |-> BatteryStateFind((status \div 16) % 16)] >>

\* One component update on the inputs c: the inputs after it, the
\* dispatches made and the exception that leaves it.  Trigger.update stores
\* the analog value.  A battery value is stored after its dispatch (lines
\* 428-434), every other value before it.
InputStep(c, step, beh) ==
    CASE step.kind = "button" ->
            LET now == IF step.name = "cross" THEN c.cross ELSE c.buttons[step.name]
                u == ButtonUpdate(now, step.value, OnPress(step.name), OnState(step.name), beh)
            IN  [c |-> IF step.name = "cross" THEN [c EXCEPT !.cross = u.pressed]
                       ELSE [c EXCEPT !.buttons[step.name] = u.pressed],
                 fired |-> u.fired, raised |-> u.raised]
      [] step.kind = "dpad" ->
            LET u == DpadUpdate(c.dpad, step.value, beh)
            IN  [c |-> [c EXCEPT !.dpad = u.dpad], fired |-> u.fired, raised |-> u.raised]
      [] step.kind = "trigger" ->
            [c |-> [c EXCEPT !.trigger_pos[step.name] = step.value], fired |-> <<>>,
             raised |-> "none"]
      [] step.kind = "stick" ->
            LET u == ThumbstickUpdate(step.name, c.buttons[step.name], c.stick_pos[step.name],
                                      step.value, step.pos, beh)
            IN  [c |-> [c EXCEPT !.buttons[step.name] = u.pressed,
                                 !.stick_pos[step.name] = u.pos],
                 fired |-> u.fired, raised |-> u.raised]
      [] step.kind = "touch_point" ->
            LET u == TouchPointUpdate(c.touch_points[step.name], step.value,
                                      OnTouch(step.name), OnMove(step.name), beh)
            IN  [c |-> [c EXCEPT !.touch_points[step.name] = u.touch_point],
                 fired |-> u.fired, raised |-> u.raised]
      [] step.kind = "gyroscope" ->
            [c |-> [c EXCEPT !.roll = step.value], fired |-> <<>>, raised |-> "none"]
      [] step.kind = "battery_percent" ->
            LET e == CallbackCall("on_battery_percent", <<step.value>>, beh)
            IN  IF step.value = c.battery_percent
                THEN [c |-> c, fired |-> <<>>, raised |-> "none"]
                ELSE [c |-> IF e.raised = "none"
                            THEN [c EXCEPT !.battery_percent = step.value] ELSE c,
                      fired |-> <<e>>, raised |-> e.raised]
      [] step.kind = "battery_state" ->
            LET e == CallbackCall("on_battery_state", <<step.value>>, beh)
            IN  IF step.value = c.battery_state
                THEN [c |-> c, fired |-> <<>>, raised |-> "none"]
                ELSE [c |-> IF e.raised = "none"
                            THEN [c EXCEPT !.battery_state = step.value] ELSE c,
                      fired |-> <<e>>, raised |-> e.raised]

\* The updates from the i-th on, u being the outcome of the i-th: an update
\* that raises ends the decode.
RECURSIVE InputsFrom(_, _, _, _, _)
InputsAfter(u, steps, i, dispatched, beh) ==
    IF u.raised # "none"
    THEN [c |-> u.c, fired |-> dispatched \o u.fired, raised |-> u.raised]
    ELSE InputsFrom(u.c, steps, i + 1, dispatched \o u.fired, beh)

InputsFrom(c, steps, i, dispatched, beh) ==
    IF i > Len(steps) THEN [c |-> c, fired |-> dispatched, raised |-> "none"]
    ELSE CHOOSE r \in {InputsAfter(u, steps, i, dispatched, beh) :
                          u \in {InputStep(c, steps[i], beh)}} : TRUE

\* Dualsense._update_inputs(input_report), lines 379-434, on the inputs c,
\* every field of the report decoded.
UpdateAllInputs(c, input_report, bluetooth, beh) ==
    CHOOSE r \in {InputsFrom(c, steps, 1, <<>>, beh) :
                     steps \in {InputSteps(IF bluetooth THEN Pop1(input_report)
                                                       ELSE input_report)}} : TRUE

(***************************************************************************)
(* SpecDecode: any sequence of 64-byte USB reports decoded by              *)
(* _update_inputs.                                                         *)
(***************************************************************************)
\* The bytes 8, 9 and 10 of the reports of the model: nothing held; cross,
\* Up, L1, share, L3, PS and mic; all four symbols, Down, R1, options, R3
\* and the touchpad click.
ButtonPatterns == <<<<8, 0, 0>>, <<32, 81, 5>>, <<244, 162, 2>>>>

\* The bytes 1-6, 22-23 and 33-40: the sticks at the centre, the triggers
\* released, no roll and no touch; or the sticks in the corners, the
\* triggers drawn, a negative roll and both touch points active.
AnalogPatterns == <<
    [sticks |-> <<127, 127, 127, 127>>, triggers |-> <<0, 0>>, roll |-> <<0, 0>>,
     touch_1 |-> <<128, 0, 0, 0>>, touch_2 |-> <<128, 0, 0, 0>>],
    [sticks |-> <<0, 255, 255, 0>>, triggers |-> <<255, 17>>, roll |-> <<249, 255>>,
     touch_1 |-> <<1, 127, 55, 4>>, touch_2 |-> <<2, 0, 0, 0>>]>>

\* The status bytes (offset 53): each defined entry of the table, one that
\* is not defined, and low nibbles up to the cap of the percentage.
DecodeStatusBytes == {0, 24, 42, 53, 169, 191, 240}

\* the report with these bytes, zero elsewhere
InputReport(b, a, status) ==
    [i \in 0 .. (USB_REPORT_LENGTH - 1) |->
        CASE i \in 1 .. 4 -> a.sticks[i]
          [] i \in 5 .. 6 -> a.triggers[i - 4]
          [] i \in 8 .. 10 -> b[i - 7]
          [] i \in 22 .. 23 -> a.roll[i - 21]
          [] i \in 33 .. 36 -> a.touch_1[i - 32]
          [] i \in 37 .. 40 -> a.touch_2[i - 36]
          [] i = 53 -> status
          [] OTHER -> 0]

\* The fabricated reports of the model, each a button pattern, an analog
\* pattern and a status byte: every status byte occurs, and every pattern
\* with more than one status byte.
ReportChoices == {<<1, 1, 0>>, <<2, 2, 24>>, <<3, 1, 42>>, <<1, 2, 53>>, <<2, 1, 169>>,
                  <<3, 2, 191>>, <<1, 1, 240>>, <<1, 1, 24>>}

InputReports ==
    {InputReport(ButtonPatterns[c[1]], AnalogPatterns[c[2]], c[3]) : c \in ReportChoices}

\* The callable of the program on the first Button decoded (avrgui.py:556),
\* and a callable on the battery percentage.
DecodeSubscribed == [e \in Events |->
                       CASE e = "square.on_state" -> <<1>>
                         [] e = "on_battery_percent" -> <<2>>
                         [] OTHER -> <<>>]

InitDecode == callback_list = DecodeSubscribed /\ Constructed

\* _update_inputs(input_report) on a report of the expected length; the
\* step records the report as op.step
Decode(input_report, beh) ==
    \E r \in {UpdateAllInputs(InputsNow, input_report, use_bluetooth, beh)} :
        /\ cross' = r.c.cross
        /\ buttons' = r.c.buttons
        /\ dpad' = r.c.dpad
        /\ trigger_pos' = r.c.trigger_pos
        /\ stick_pos' = r.c.stick_pos
        /\ touch_points' = r.c.touch_points
        /\ roll' = r.c.roll
        /\ battery_percent' = r.c.battery_percent
        /\ battery_state' = r.c.battery_state
        /\ fired' = r.fired
        /\ op' = Op("decode", 0, FALSE, USB_REPORT_LENGTH, input_report, r.raised)
        /\ UNCHANGED <<callbacks, session, outputs>>

NextDecode ==
    \E input_report \in InputReports, beh \in BehavioursOf(Events) : Decode(input_report, beh)

SpecDecode == InitDecode /\ [][NextDecode]_vars

(***************************************************************************)
(* dualsense.py: open() and close(), called from a thread of the program   *)
(***************************************************************************)
\* Dualsense.is_open
is_open ==
    IF update_thread = 0 \/ device = 0 THEN FALSE
    ELSE pc[update_thread] \notin {"unborn", "dead"}

\* The handles after lines 261-262: the handle of the earlier session is closed.
CloseOld(h) == IF device # 0 THEN [h EXCEPT ![device] = "closed"] ELSE h

\* The outcomes of the setup of open(), lines 260-301.
SetupOutcomes == {"discovery_fails", "lookup_none", "pairing_fails", "firmware_fails",
                  "usb", "bluetooth"}

\* open(device, hold, force_bluetooth), lines 258-306, with `given` for a
\* device argument that is not None.  On an open session the body is
\* skipped and open returns None.  Else the try block runs, with the handle
\* k when it succeeds and the handle `partial` when it fails:
\*  discovery_fails: get_device raises IOError; the handler calls close() on
\*      None, and its finally clause raises the IOError.
\*  lookup_none: find_devices returns None, and subscripting it raises a
\*      TypeError, which the handler does not catch.
\*  pairing_fails, firmware_fails: get_feature_report raises; the handler
\*      closes the handle and raises the error again.
\*  usb, bluetooth: the setup succeeds with that transport; the handle is
\*      stored, the stop flag raised and the polling thread started.
\* No polling thread is alive between the test of is_open and the start of
\* the new thread, so these lines are one step.
Open(given, hold, force_bluetooth, outcome) ==
    LET k == caller.k + 1
    IN
    /\ caller.pc = "idle"
    /\ fired' = <<>>
    /\ IF is_open
       THEN /\ op' = Op("open", 0, FALSE, 0, "already_open", "none")
            /\ UNCHANGED <<caller, handle, partial, use_bluetooth, report_length, identity,
                           device, update_thread, update_thread_running, pc>>
       ELSE /\ caller.k < MaxOpens
            /\ outcome = "discovery_fails" => ~given
            /\ outcome \in {"lookup_none", "usb"} => ~force_bluetooth
            /\ CASE outcome = "discovery_fails" ->
                      /\ handle' = CloseOld(handle)
                      /\ partial' = "none"
                      /\ op' = Op("open", 0, FALSE, 0, "discovery", "IOError")
                      /\ UNCHANGED <<caller, use_bluetooth, report_length, identity, device,
                                     update_thread, update_thread_running, pc>>
                 [] outcome = "lookup_none" ->
                      /\ handle' = CloseOld(handle)
                      /\ partial' = "open"
                      /\ op' = Op("open", 0, FALSE, 0, "serial_lookup", "TypeError")
                      /\ UNCHANGED <<caller, use_bluetooth, report_length, identity, device,
                                     update_thread, update_thread_running, pc>>
                 [] outcome \in {"pairing_fails", "firmware_fails"} ->
                      /\ handle' = CloseOld(handle)
                      /\ partial' = "closed"
                      /\ op' = Op("open", 0, FALSE, 0,
                                  IF outcome = "pairing_fails" THEN "pairing" ELSE "firmware",
                                  "IOError")
                      /\ UNCHANGED <<caller, use_bluetooth, report_length, identity, device,
                                     update_thread, update_thread_running, pc>>
                 [] OTHER ->
                      /\ handle' = [CloseOld(handle) EXCEPT ![k] = "open"]
                      /\ partial' = "none"
                      /\ identity' = k
                      /\ use_bluetooth' = (outcome = "bluetooth")
                      /\ report_length' = IF outcome = "bluetooth"
                                          THEN BLUETOOTH_REPORT_LENGTH
                                          ELSE USB_REPORT_LENGTH
                      /\ device' = k
                      /\ update_thread_running' = TRUE
                      /\ update_thread' = k
                      /\ pc' = [pc EXCEPT ![k] = "loop"]
                      /\ caller' = [pc |-> "clear", k |-> k, hold |-> hold]
                      /\ op' = Op("open", 0, FALSE, 0, "start", "none")
    /\ log' = IF ~is_open /\ outcome \in {"usb", "bluetooth"}
              THEN [t \in Opens |-> IF pc[t] = "dead" THEN NoLog ELSE log[t]]
              ELSE log
    /\ UNCHANGED <<callbacks, components, outputs, last_state, loop_running, racer>>

\* An open() that leaves _loop_running as it finds it.
OpenKeepsLoopRunning ==
    /\ caller.pc = "clear"
    /\ caller' = IF caller.hold THEN [caller EXCEPT !.pc = "hold"] ELSE Idle(caller.k)
    /\ fired' = <<>>
    /\ op' = Op("open", 0, FALSE, 0, IF caller.hold THEN "clear" ELSE "return", "none")
    /\ UNCHANGED <<callbacks, components, outputs, device, handle, partial, update_thread,
                   update_thread_running, last_state, loop_running, use_bluetooth,
                   report_length, identity, pc, racer, log>>

\* open(), line 307, and the return of open(hold=False)
OpenClear ==
    /\ caller.pc = "clear"
    /\ loop_running' = FALSE
    /\ caller' = IF caller.hold THEN [caller EXCEPT !.pc = "hold"] ELSE Idle(caller.k)
    /\ fired' = <<>>
    /\ op' = Op("open", 0, FALSE, 0, IF caller.hold THEN "clear" ELSE "return", "none")
    /\ UNCHANGED <<callbacks, components, outputs, device, handle, partial, update_thread,
                   update_thread_running, last_state, use_bluetooth, report_length,
                   identity, pc, racer, log>>

\* open(hold=True), lines 308-311: the caller spins until _loop_running
OpenHold ==
    /\ caller.pc = "hold"
    /\ loop_running
    /\ caller' = Idle(caller.k)
    /\ fired' = <<>>
    /\ op' = Op("open", 0, TRUE, 0, "return", "none")
    /\ UNCHANGED <<callbacks, components, outputs, device, handle, partial, update_thread,
                   update_thread_running, last_state, loop_running, use_bluetooth,
                   report_length, identity, pc, racer, log>>

\* A close() that leaves the stop flag as it is.
CloseKeepsFlag ==
    /\ loop_running' = FALSE
    /\ fired' = <<>>
    /\ op' = Op("close", 0, is_open, 0, "none", "none")
    /\ UNCHANGED <<callbacks, components, outputs, device, handle, partial, update_thread,
                   update_thread_running, last_state, use_bluetooth, report_length,
                   identity, pc, caller, racer, log>>

\* close(), called from any thread of the program
Close ==
    /\ update_thread_running' = IF is_open THEN FALSE ELSE update_thread_running
    /\ loop_running' = FALSE
    /\ fired' = <<>>
    /\ op' = Op("close", 0, is_open, 0, "none", "none")
    /\ UNCHANGED <<callbacks, components, outputs, device, handle, partial, update_thread,
                   last_state, use_bluetooth, report_length, identity, pc, caller, racer, log>>

\* get_calibration_info(), called from any thread of the program: the
\* feature report is read from _device by the calling thread.  Without a
\* device the attribute lookup on None raises; on a closed handle hidapi
\* raises ValueError; on an open handle the read returns or raises OSError.
GetCalibrationInfo(outcome) ==
    /\ fired' = <<>>
    /\ op' = IF device = 0
             THEN Op("get_calibration_info", 0, is_open, 0, "no_device", "AttributeError")
             ELSE IF handle[device] # "open"
             THEN Op("get_calibration_info", 0, is_open, 0, "feature_report", "ValueError")
             ELSE Op("get_calibration_info", 0, is_open, 0, "feature_report",
                     IF outcome = "OSError" THEN "OSError" ELSE "none")
    /\ UNCHANGED <<callbacks, components, outputs, session>>

(***************************************************************************)
(* const.py: the flag bits, each flag a set of bit values                  *)
(***************************************************************************)
\* UpdateFlags1
RUMBLE == {1, 2}
RIGHT_TRIGGER == {4}
LEFT_TRIGGER == {8}
INTERNAL_SPEAKER_VOLUME == {32}
MICROPHONE_VOLUME == {64}
\* UpdateFlags2
MICROPHONE_LED == {1}
AUDIO_MIC_MUTE == {2}
TOUCHPAD_LED == {4}
PLAYER_LEDS == {16}
\* LedFlags
PLAYER_MIC == {1}
TOUCHPAD == {2}
\* TouchpadLedModes.FADE_BLUE
FADE_BLUE == 1

(***************************************************************************)
(* components/touchpad.py: the LEDs of the touchpad                        *)
(***************************************************************************)
\* The colours the program sets (heads_up.py:409, 467), and a colour out of
\* range.
TouchpadColors == {<<255, 0, 0>>, <<0, 255, 0>>}
ColorArguments == TouchpadColors \cup {<<256, 0, 0>>}

\* the test of line 140
InRange(color) == \A i \in 1 .. 3 : 0 <= color[i] /\ color[i] <= 255

\* led_color = color, lines 138-142.  The identity test of line 139 holds
\* of every tuple the caller builds.
SetLedColor(tp, color) ==
    IF Len(color) = 3 /\ InRange(color)
    THEN [tp EXCEPT !.led_changed = TRUE,
                    !.led_r = color[1], !.led_g = color[2], !.led_b = color[3]]
    ELSE tp

\* led_off(), lines 145-146
LedOff(tp) == [tp EXCEPT !.led_changed = TRUE, !.led_r = 0, !.led_g = 0, !.led_b = 0]

\* fade_to_blue(), line 153
FadeToBlue(tp) == [tp EXCEPT !.fade_to_blue = TRUE]

\* A force_update() that also drops the fade that was asked for.
TouchpadForceUpdateDropsFade(tp) == [tp EXCEPT !.led_changed = TRUE, !.fade_to_blue = FALSE]

\* Touchpad.force_update(), line 178
TouchpadForceUpdate(tp) == [tp EXCEPT !.led_changed = TRUE]

\* A get_report that leaves _led_changed set.
TouchpadGetReportKeepsChanged(tp) ==
    [flag |-> IF tp.led_changed THEN TOUCHPAD_LED ELSE {},
     led |-> <<tp.led_r, tp.led_g, tp.led_b>>,
     led_flag |-> IF tp.fade_to_blue THEN TOUCHPAD ELSE {},
     led_mode |-> IF tp.fade_to_blue THEN FADE_BLUE ELSE 0,
     touchpad |-> [tp EXCEPT !.fade_to_blue = FALSE]]

\* Touchpad.get_report(), lines 188-194: what it returns, and the touchpad
\* after it.
TouchpadGetReport(tp) ==
    [flag |-> IF tp.led_changed THEN TOUCHPAD_LED ELSE {},
     led |-> <<tp.led_r, tp.led_g, tp.led_b>>,
     led_flag |-> IF tp.fade_to_blue THEN TOUCHPAD ELSE {},
     led_mode |-> IF tp.fade_to_blue THEN FADE_BLUE ELSE 0,
     touchpad |-> [tp EXCEPT !.led_changed = FALSE, !.fade_to_blue = FALSE]]

(***************************************************************************)
(* The other output-bearing components (mic_button, trigger, player_led,   *)
(* rumble_motor, speaker, microphone): a dirty flag each, set by a setter  *)
(* and by force_update(), reported and cleared by get_report().            *)
(***************************************************************************)
\* the bits get_report() of a dirty component returns for flag byte 1 ...
ComponentFlag1(c) ==
    CASE c = "left_trigger" -> LEFT_TRIGGER
      [] c = "right_trigger" -> RIGHT_TRIGGER
      [] c \in {"left_rumble", "right_rumble"} -> RUMBLE
      [] c = "speaker" -> INTERNAL_SPEAKER_VOLUME
      [] c = "microphone" -> MICROPHONE_VOLUME
      [] OTHER -> {}

\* ... and for flag byte 2
ComponentFlag2(c) ==
    CASE c = "mic_button" -> MICROPHONE_LED
      [] c = "player_led" -> PLAYER_LEDS
      [] c \in {"speaker", "microphone"} -> AUDIO_MIC_MUTE
      [] OTHER -> {}

\* the bits of the dirty components among cs, with the dirty flags d
Flags1(d, cs) == UNION {IF d[c] THEN ComponentFlag1(c) ELSE {} : c \in cs}
Flags2(d, cs) == UNION {IF d[c] THEN ComponentFlag2(c) ELSE {} : c \in cs}

(***************************************************************************)
(* dualsense.py: force_update() and _generate_report()                     *)
(***************************************************************************)
\* A reconciliation in which the mic button sets the byte and the player
\* LEDs are not told.
ReconcileBrightnessUntold(b, bd) ==
    LET mic == bd["mic_button"]
        player == bd["player_led"] /\ ~mic
        b2 == IF player THEN [b EXCEPT !["mic_button"] = b["player_led"]] ELSE b
    IN  [brightness |-> b2,
         byte |-> IF player THEN b["player_led"] ELSE IF mic THEN b["mic_button"] ELSE 0,
         set_by |-> (IF mic THEN <<"mic_button">> ELSE <<>>)
                        \o (IF player THEN <<"player_led">> ELSE <<>>)]

\* _generate_report, lines 449-457 and 473-479: the brightness byte of the
\* report (offset 43), the components that assigned it, in order, and the
\* brightness of both components after the pass; b is the brightness of
\* each owner, bd whether its get_report() returns the led flag.
ReconcileBrightness(b, bd) ==
    LET mic == bd["mic_button"]
        b1 == IF mic THEN [b EXCEPT !["player_led"] = b["mic_button"]] ELSE b
        player == bd["player_led"] /\ ~mic
        b2 == IF player THEN [b1 EXCEPT !["mic_button"] = b1["player_led"]] ELSE b1
    IN  [brightness |-> b2,
         byte |-> IF player THEN b1["player_led"] ELSE IF mic THEN b["mic_button"] ELSE 0,
         set_by |-> (IF mic THEN <<"mic_button">> ELSE <<>>)
                        \o (IF player THEN <<"player_led">> ELSE <<>>)]

\* _generate_report(): the report (its id, the two flag bytes at offsets 1
\* and 2, the led flags at 39, the led mode at 42, the brightness at 43 and
\* the touchpad colour at 45-47) and the components after the pass.
GenerateReport(tp, d, b, bd, bluetooth) ==
    LET t == TouchpadGetReport(tp)
        r == ReconcileBrightness(b, bd)
    IN  [report |-> [id |-> IF bluetooth THEN 49 ELSE 2,
                     flag1 |-> Flags1(d, OutputComponents),
                     flag2 |-> Flags2(d, OutputComponents) \cup t.flag,
                     led_flags |-> (IF \E c \in BrightnessOwners : bd[c]
                                    THEN PLAYER_MIC ELSE {}) \cup t.led_flag,
                     led_mode |-> t.led_mode,
                     brightness |-> r.byte,
                     brightness_set_by |-> r.set_by,
                     touchpad_led |-> t.led],
         touchpad |-> t.touchpad,
         dirty |-> [c \in OutputComponents |-> FALSE],
         brightness |-> r.brightness,
         brightness_dirty |-> [c \in BrightnessOwners |-> FALSE]]

\* A force_update() that leaves out the speaker.
ForceUpdateDirtyButSpeaker(d) == [c \in OutputComponents |-> d[c] \/ c # "speaker"]

\* Dualsense.force_update(), lines 326-334: the dirty flags after it
ForceUpdateDirty(d) == [c \in OutputComponents |-> TRUE]

(***************************************************************************)
(* dualsense.py: Dualsense._update, the polling thread t                   *)
(***************************************************************************)
\* line 343: the loop head tests the stop flag
PollLoop(t) ==
    /\ pc[t] = "loop"
    /\ pc' = [pc EXCEPT ![t] = IF update_thread_running THEN "read" ELSE "finally"]
    /\ log' = [log EXCEPT ![t].cause = IF update_thread_running THEN @ ELSE "stop"]
    /\ fired' = <<>>
    /\ op' = Op("loop", t, update_thread_running, 0, "none", "none")
    /\ UNCHANGED <<callbacks, components, outputs, device, handle, partial, update_thread,
                   update_thread_running, last_state, loop_running, use_bluetooth,
                   report_length, identity, caller, racer>>

\* An except clause that starts the loop again after an OSError.
ExceptOSErrorRetry(t) == [pc EXCEPT ![t] = "loop"]

\* lines 363-365: an OSError raised inside the loop is caught outside of
\* it, so the thread goes on with the finally clause.
ExceptOSError(t) == [pc EXCEPT ![t] = "finally"]

\* A test that takes any buffer that is not empty for a report.
LengthNotEmpty(len) == len > 0

\* line 345: the test of the length of the buffer read
LengthMatches(len) == len = report_length

\* lines 344-349: the blocking read and the decode of what it returned.
\* The read raises OSError, or returns a buffer of len bytes; report is
\* what a buffer of the expected length holds.
PollRead(t, outcome, len, report, beh) ==
    /\ pc[t] = "read"
    /\ len <= report_length
    /\ IF outcome = "OSError"
       THEN /\ pc' = ExceptOSError(t)
            /\ log' = [log EXCEPT ![t].cause = "io"]
            /\ fired' = <<>>
            /\ op' = Op("read", t, FALSE, 0, "none", "OSError")
            /\ UNCHANGED components
       ELSE IF LengthMatches(len)
       THEN \E r \in {UpdateInputs(report, beh)} :
                /\ cross' = r.cross
                /\ roll' = r.roll
                /\ battery_percent' = r.battery_percent
                /\ battery_state' = r.battery_state
                /\ UNCHANGED <<dpad, controls>>
                /\ fired' = r.fired
                /\ pc' = [pc EXCEPT ![t] = IF r.raised = "none" THEN "conn" ELSE "finally"]
                /\ log' = [log EXCEPT ![t].good = TRUE,
                                      ![t].cause = IF r.raised = "none" THEN @ ELSE "callback",
                                      ![t].iter = IF r.raised = "none" THEN <<"read">> ELSE <<>>]
                /\ op' = Op("read", t, FALSE, len, "decode", r.raised)
       ELSE /\ pc' = [pc EXCEPT ![t] = "conn"]
            /\ log' = [log EXCEPT ![t].iter = <<"read">>]
            /\ fired' = <<>>
            /\ op' = Op("read", t, FALSE, len, "discard", "none")
            /\ UNCHANGED components
    /\ UNCHANGED <<callbacks, outputs, device, handle, partial, update_thread,
                   update_thread_running, last_state, loop_running, use_bluetooth, report_length, identity,
                   caller, racer>>

\* lines 351-353: the connectivity event of the first iteration
PollConn(t, beh) ==
    LET c == CallbackCall("on_state", <<TRUE>>, beh)
    IN
    /\ pc[t] = "conn"
    /\ IF ~last_state
       THEN /\ fired' = <<c>>
            /\ last_state' = (c.raised = "none")
            /\ pc' = [pc EXCEPT ![t] = IF c.raised = "none" THEN "write" ELSE "finally"]
            /\ log' = [log EXCEPT ![t].conn = Append(@, TRUE),
                                  ![t].cause = IF c.raised = "none" THEN @ ELSE "callback",
                                  ![t].iter = IF c.raised = "none" THEN @ ELSE <<>>]
            /\ op' = Op("conn", t, TRUE, 0, "none", c.raised)
       ELSE /\ fired' = <<>>
            /\ pc' = [pc EXCEPT ![t] = "write"]
            /\ op' = Op("conn", t, FALSE, 0, "none", "none")
            /\ UNCHANGED <<last_state, log>>
    /\ UNCHANGED <<callbacks, components, outputs, device, handle, partial, update_thread,
                   update_thread_running, loop_running, use_bluetooth, report_length,
                   identity, caller, racer>>

\* A polling step that builds and writes a report only when a component
\* has something to send.
PollWriteIfDirty(t, outcome) ==
    LET g == GenerateReport(touchpad, dirty, brightness, brightness_dirty, use_bluetooth)
        sends == g.report.flag1 # {} \/ g.report.flag2 # {} \/ g.report.led_flags # {}
    IN
    /\ pc[t] = "write"
    /\ IF ~sends
       THEN /\ pc' = [pc EXCEPT ![t] = "mark"]
            /\ UNCHANGED <<log, touchpad, dirty, brightness, brightness_dirty, output_report,
                           writes>>
       ELSE /\ touchpad' = g.touchpad
            /\ writes' = <<>>
            /\ dirty' = g.dirty
            /\ brightness' = g.brightness
            /\ brightness_dirty' = g.brightness_dirty
            /\ output_report' = g.report
            /\ IF outcome = "OSError"
               THEN /\ pc' = ExceptOSError(t)
                    /\ log' = [log EXCEPT ![t].cause = "io", ![t].iter = <<>>]
               ELSE /\ pc' = [pc EXCEPT ![t] = "mark"]
                    /\ log' = [log EXCEPT ![t].iter = @ \o <<"build", "write">>,
                                          ![t].done = TRUE]
    /\ fired' = <<>>
    /\ op' = Op("write", t, FALSE, 0, "none", IF outcome = "OSError" THEN "OSError" ELSE "none")
    /\ UNCHANGED <<callbacks, components, setter, encoder, device, handle, partial,
                   update_thread, update_thread_running, last_state, loop_running,
                   use_bluetooth, report_length, identity, caller, racer>>

\* lines 355-357: the output report is built by _generate_report(), which
\* leaves no component dirty, and written; the write succeeds or raises
\* OSError
PollWrite(t, outcome) ==
    LET g == GenerateReport(touchpad, dirty, brightness, brightness_dirty, use_bluetooth)
    IN
    /\ pc[t] = "write"
    /\ touchpad' = g.touchpad
    /\ dirty' = g.dirty
    /\ brightness' = g.brightness
    /\ brightness_dirty' = g.brightness_dirty
    /\ output_report' = g.report
    /\ writes' = <<>>
    /\ IF outcome = "OSError"
       THEN /\ pc' = ExceptOSError(t)
            /\ log' = [log EXCEPT ![t].cause = "io", ![t].iter = <<>>]
       ELSE /\ pc' = [pc EXCEPT ![t] = "mark"]
            /\ log' = [log EXCEPT ![t].iter = @ \o <<"build", "write">>, ![t].done = TRUE]
    /\ fired' = <<>>
    /\ op' = Op("write", t, FALSE, 0, "none", IF outcome = "OSError" THEN "OSError" ELSE "none")
    /\ UNCHANGED <<callbacks, components, setter, encoder, device, handle, partial,
                   update_thread, update_thread_running, last_state, loop_running,
                   use_bluetooth, report_length, identity, caller, racer>>

\* lines 360-362: the report has been sent, the iteration is marked
\* complete and on_update fires
PollMark(t, beh) ==
    LET u == CallbackCall("on_update", <<>>, beh)
    IN
    /\ pc[t] = "mark"
    /\ loop_running' = TRUE
    /\ output_report' = NoReport
    /\ fired' = <<u>>
    /\ pc' = [pc EXCEPT ![t] = IF u.raised = "none" THEN "loop" ELSE "finally"]
    /\ log' = [log EXCEPT ![t].cause = IF u.raised = "none" THEN @ ELSE "callback",
                          ![t].iter = <<>>]
    /\ op' = Op("mark", t, FALSE, 0, "none", u.raised)
    /\ UNCHANGED <<callbacks, components, touchpad, dirty, brightness, brightness_dirty,
                   setter, encoder, writes, device, handle, partial, update_thread,
                   update_thread_running, last_state, use_bluetooth, report_length,
                   identity, caller, racer>>

\* lines 365-369: the finally clause closes the handle and, when
\* _last_state is false, fires on_state(False); an exception of that
\* dispatch ends the thread before line 370.
PollFinally(t, beh) ==
    LET c == CallbackCall("on_state", <<FALSE>>, beh)
    IN
    /\ pc[t] = "finally"
    /\ handle' = [handle EXCEPT ![device] = "closed"]
    /\ output_report' = NoReport
    /\ IF ~last_state
       THEN /\ fired' = <<c>>
            /\ pc' = [pc EXCEPT ![t] = IF c.raised = "none" THEN "exit" ELSE "dead"]
            /\ log' = [log EXCEPT ![t].conn = Append(@, FALSE)]
            /\ op' = Op("finally", t, TRUE, 0, "none", c.raised)
       ELSE /\ fired' = <<>>
            /\ pc' = [pc EXCEPT ![t] = "exit"]
            /\ op' = Op("finally", t, FALSE, 0, "none", "none")
            /\ UNCHANGED log
    /\ UNCHANGED <<callbacks, components, touchpad, dirty, brightness, brightness_dirty,
                   setter, encoder, writes, device, partial, update_thread,
                   update_thread_running, last_state, loop_running, use_bluetooth,
                   report_length, identity, caller, racer>>

\* line 370, and the end of the thread
PollExit(t) ==
    /\ pc[t] = "exit"
    /\ update_thread_running' = FALSE
    /\ pc' = [pc EXCEPT ![t] = "dead"]
    /\ fired' = <<>>
    /\ op' = Op("exit", t, FALSE, 0, "none", "none")
    /\ UNCHANGED <<callbacks, components, outputs, device, handle, partial, update_thread,
                   last_state, loop_running, use_bluetooth, report_length, identity,
                   caller, racer, log>>

\* The steps of the polling thread t.
PollThread(t) ==
    \/ PollLoop(t)
    \/ /\ pc[t] = "read"
       /\ \E outcome \in {"returns", "OSError"}, len \in ReadLengths, report \in Reports,
             beh \in BehavioursOf(DecodeEvents) : PollRead(t, outcome, len, report, beh)
    \/ /\ pc[t] = "conn"
       /\ \E beh \in BehavioursOf({"on_state"}) : PollConn(t, beh)
    \/ /\ pc[t] = "write"
       /\ \E outcome \in {"returns", "OSError"} : PollWrite(t, outcome)
    \/ /\ pc[t] = "mark"
       /\ \E beh \in BehavioursOf({"on_update"}) : PollMark(t, beh)
    \/ /\ pc[t] = "finally"
       /\ \E beh \in BehavioursOf({"on_state"}) : PollFinally(t, beh)
    \/ PollExit(t)

NextSession ==
    \/ \E given, hold, force_bluetooth \in BOOLEAN, outcome \in SetupOutcomes :
            Open(given, hold, force_bluetooth, outcome)
    \/ OpenClear
    \/ OpenHold
    \/ Close
    \/ \E outcome \in {"returns", "OSError"} : GetCalibrationInfo(outcome)
    \/ \E t \in Opens : PollThread(t)

SpecSession == InitSession /\ [][NextSession]_vars

\* The session with a scheduler that lets every started thread run, reads
\* that return within their timeout (dualsense.py:344) and callables that
\* return or raise.
SpecSessionFair == SpecSession /\ \A t \in Opens : WF_vars(PollThread(t))

\* The same with a thread calling open() that is scheduled too: it reaches
\* line 307 and leaves the wait of lines 309-310 when the flag stays up.
SpecOpenFair == SpecSessionFair /\ WF_vars(OpenClear) /\ WF_vars(OpenHold)

(***************************************************************************)
(* SpecEncode: setter calls and encode passes, one call at a time.         *)
(***************************************************************************)
\* setter calls between two encode passes
MaxSets == 2

\* an entry of `writes`
Write(call, c, value) == [call |-> call, c |-> c, value |-> value]

\* a setter of the output-bearing component c (a trigger profile, a rumble
\* intensity, a volume, the player LEDs, the mic LED)
Set(c) ==
    /\ Len(writes) < MaxSets
    /\ dirty' = [dirty EXCEPT ![c] = TRUE]
    /\ writes' = Append(writes, Write("set", "any", 0))
    /\ output_report' = NoReport
    /\ fired' = <<>>
    /\ op' = Op("set", 0, FALSE, 0, c, "none")
    /\ UNCHANGED <<callbacks, components, session, touchpad, brightness,
                   brightness_dirty, setter, encoder>>

\* mic_button.led_brightness = level, player_led.brightness = level
SetBrightness(c, level) ==
    /\ Len(writes) < MaxSets
    /\ brightness' = [brightness EXCEPT ![c] = level]
    /\ brightness_dirty' = [brightness_dirty EXCEPT ![c] = TRUE]
    /\ writes' = Append(writes, Write("brightness", c, level))
    /\ output_report' = NoReport
    /\ fired' = <<>>
    /\ op' = Op("brightness", 0, FALSE, 0, c, "none")
    /\ UNCHANGED <<callbacks, components, session, touchpad, dirty, setter, encoder>>

\* touchpad.led_color = color, led_off(), fade_to_blue(), force_update()
SetTouchpad(call, color) ==
    /\ Len(writes) < MaxSets
    /\ touchpad' = CASE call = "led_color" -> SetLedColor(touchpad, color)
                     [] call = "led_off" -> LedOff(touchpad)
                     [] call = "fade_to_blue" -> FadeToBlue(touchpad)
                     [] call = "force_update" -> TouchpadForceUpdate(touchpad)
    /\ writes' = Append(writes, Write("set", "any", 0))
    /\ output_report' = NoReport
    /\ fired' = <<>>
    /\ op' = Op("touchpad", 0, FALSE, 0, call, "none")
    /\ UNCHANGED <<callbacks, components, session, dirty, brightness,
                   brightness_dirty, setter, encoder>>

\* Dualsense.force_update()
ForceUpdate ==
    /\ Len(writes) < MaxSets
    /\ touchpad' = TouchpadForceUpdate(touchpad)
    /\ dirty' = ForceUpdateDirty(dirty)
    /\ brightness_dirty' = [c \in BrightnessOwners |-> TRUE]
    /\ writes' = Append(writes, Write("force_update", "any", 0))
    /\ output_report' = NoReport
    /\ fired' = <<>>
    /\ op' = Op("force_update", 0, FALSE, 0, "none", "none")
    /\ UNCHANGED <<callbacks, components, session, brightness, setter, encoder>>

\* one encode pass: _generate_report(), as line 355 calls it
Encode ==
    LET g == GenerateReport(touchpad, dirty, brightness, brightness_dirty, use_bluetooth)
    IN  /\ touchpad' = g.touchpad
        /\ dirty' = g.dirty
        /\ brightness' = g.brightness
        /\ brightness_dirty' = g.brightness_dirty
        /\ output_report' = g.report
        /\ writes' = <<>>
        /\ fired' = <<>>
        /\ op' = Op("encode", 0, FALSE, 0, "none", "none")
        /\ UNCHANGED <<callbacks, components, session, setter, encoder>>

NextEncode ==
    \/ \E c \in OutputComponents : Set(c)
    \/ \E c \in BrightnessOwners, level \in BrightnessLevels : SetBrightness(c, level)
    \/ \E call \in {"led_color", "led_off", "fade_to_blue", "force_update"},
          color \in ColorArguments : SetTouchpad(call, color)
    \/ ForceUpdate
    \/ Encode

SpecEncode == Init /\ [][NextEncode]_vars

(***************************************************************************)
(* SpecLoop: the polling thread of an open session while the program calls *)
(* the setters of the output components.                                   *)
(***************************************************************************)
\* The session once open(hold=False) has started its first thread and
\* returned (dualsense.py:258-311).
InitLoop ==
    /\ callback_list = Subscribed
    /\ async_callback_list = [e \in {} |-> <<>>]
    /\ dispatch = NoDispatch
    /\ cross = FALSE
    /\ roll = 0
    /\ battery_percent = 0
    /\ battery_state = "UNKNOWN"
    /\ InitDpad
    /\ InitControls
    /\ device = 1
    /\ handle = [k \in Opens |-> IF k = 1 THEN "open" ELSE "unopened"]
    /\ partial = "none"
    /\ update_thread = 1
    /\ update_thread_running = TRUE
    /\ last_state = FALSE
    /\ loop_running = FALSE
    /\ use_bluetooth = FALSE
    /\ report_length = USB_REPORT_LENGTH
    /\ identity = 1
    /\ pc = [k \in Opens |-> IF k = 1 THEN "loop" ELSE "unborn"]
    /\ caller = Idle(1)
    /\ racer = RacerIdle
    /\ fired = <<>>
    /\ op = NoOp
    /\ log = [k \in Opens |-> NoLog]
    /\ InitOutputs

\* the reports the controller sends in this specification
LoopReports == {r \in Reports : r.roll = 0 /\ r.status = 0}

\* The steps of the polling thread t on those reports.
LoopThread(t) ==
    \/ PollLoop(t)
    \/ \E outcome \in {"returns", "OSError"}, len \in ReadLengths, report \in LoopReports,
          beh \in BehavioursOf(DecodeEvents) : PollRead(t, outcome, len, report, beh)
    \/ \E beh \in BehavioursOf({"on_state"}) : PollConn(t, beh)
    \/ \E outcome \in {"returns", "OSError"} : PollWrite(t, outcome)
    \/ \E beh \in BehavioursOf({"on_update"}) : PollMark(t, beh)
    \/ \E beh \in BehavioursOf({"on_state"}) : PollFinally(t, beh)
    \/ PollExit(t)

NextLoop ==
    \/ \E t \in Opens : LoopThread(t)
    \/ \E c \in OutputComponents : Set(c)
    \/ \E color \in ColorArguments : SetTouchpad("led_color", color)

SpecLoop == InitLoop /\ [][NextLoop]_vars

(***************************************************************************)
(* SpecReact: the polling thread of an open session whose callables call   *)
(* setters of the output components.  Callback.__call__ invokes a callable *)
(* directly (callback.py:31-34), so what a callable does happens inside    *)
(* the decode of line 347, before the thread goes on with line 351.        *)
(***************************************************************************)
\* the setters the callables call
ReactComponents == {"left_rumble", "player_led"}
ReactLevels == {1, 2}

\* A callable invoked by the decode that thread t has just made is running
\* or has called a setter.
Reacting(t) ==
    /\ pc[t] = "conn"
    /\ op.t = t
    /\ \/ op.name = "read" /\ \E j \in 1 .. Len(fired) : fired[j].invoked # <<>>
       \/ op.name = "react"
    /\ Len(writes) < MaxSets

\* a callable calls a setter of the output component c
ReactSet(t, c) ==
    /\ Reacting(t)
    /\ dirty' = [dirty EXCEPT ![c] = TRUE]
    /\ writes' = Append(writes, Write("set", c, 0))
    /\ fired' = <<>>
    /\ op' = Op("react", t, FALSE, 0, c, "none")
    /\ UNCHANGED <<callbacks, components, session, touchpad, brightness, brightness_dirty,
                   output_report, setter, encoder>>

\* a callable sets mic_button.led_brightness or player_led.brightness
ReactBrightness(t, c, level) ==
    /\ Reacting(t)
    /\ brightness' = [brightness EXCEPT ![c] = level]
    /\ brightness_dirty' = [brightness_dirty EXCEPT ![c] = TRUE]
    /\ writes' = Append(writes, Write("brightness", c, level))
    /\ fired' = <<>>
    /\ op' = Op("react", t, FALSE, 0, c, "none")
    /\ UNCHANGED <<callbacks, components, session, touchpad, dirty, output_report, setter,
                   encoder>>

\* a callable sets touchpad.led_color
ReactLedColor(t, color) ==
    /\ Reacting(t)
    /\ touchpad' = SetLedColor(touchpad, color)
    /\ writes' = Append(writes, Write("led_color", "touchpad", color))
    /\ fired' = <<>>
    /\ op' = Op("react", t, FALSE, 0, "touchpad", "none")
    /\ UNCHANGED <<callbacks, components, session, dirty, brightness, brightness_dirty,
                   output_report, setter, encoder>>

NextReact ==
    \/ \E t \in Opens : LoopThread(t)
    \/ \E t \in Opens, c \in ReactComponents : ReactSet(t, c)
    \/ \E t \in Opens, c \in BrightnessOwners, level \in ReactLevels :
            ReactBrightness(t, c, level)
    \/ \E t \in Opens, color \in TouchpadColors : ReactLedColor(t, color)

SpecReact == InitLoop /\ [][NextReact]_vars

(***************************************************************************)
(* SpecOpenRace: a second thread of the program calls open(hold=False)     *)
(* while the first calls open() and close().  open() takes no lock, so the *)
(* second thread is followed a group of lines at a step.                   *)
(***************************************************************************)
\* line 258: the test of is_open
RacerTest ==
    /\ racer.pc = "idle"
    /\ caller.k < MaxOpens
    /\ racer' = IF is_open THEN RacerIdle ELSE [pc |-> "setup", k |-> 0]
    /\ fired' = <<>>
    /\ op' = Op("open", 0, FALSE, 0, IF is_open THEN "already_open" ELSE "test", "none")
    /\ UNCHANGED <<callbacks, components, outputs, device, handle, partial, update_thread,
                   update_thread_running, last_state, loop_running, use_bluetooth,
                   report_length, identity, pc, caller, log>>

\* lines 260-301: the handle of the device bound is closed, the device of
\* this call is found and its feature reports are read over USB; or the
\* read of a feature report fails, the new handle is closed and open()
\* raises.
RacerSetup(outcome) ==
    LET k == caller.k + 1
    IN
    /\ racer.pc = "setup"
    /\ caller.k < MaxOpens
    /\ fired' = <<>>
    /\ IF outcome = "firmware_fails"
       THEN /\ handle' = CloseOld(handle)
            /\ partial' = "closed"
            /\ racer' = RacerIdle
            /\ op' = Op("open", 0, FALSE, 0, "firmware", "IOError")
            /\ UNCHANGED <<caller, use_bluetooth, report_length, identity>>
       ELSE /\ handle' = [CloseOld(handle) EXCEPT ![k] = "open"]
            /\ partial' = "none"
            /\ identity' = k
            /\ use_bluetooth' = FALSE
            /\ report_length' = USB_REPORT_LENGTH
            /\ caller' = [caller EXCEPT !.k = k]
            /\ racer' = [pc |-> "bind", k |-> k]
            /\ op' = Op("open", 0, FALSE, 0, "setup", "none")
    /\ UNCHANGED <<callbacks, components, outputs, device, update_thread,
                   update_thread_running, last_state, loop_running, pc, log>>

\* lines 302-303: the device is bound and the stop flag is raised
RacerBind ==
    /\ racer.pc = "bind"
    /\ device' = racer.k
    /\ update_thread_running' = TRUE
    /\ racer' = [racer EXCEPT !.pc = "start"]
    /\ fired' = <<>>
    /\ op' = Op("open", 0, FALSE, 0, "bind", "none")
    /\ UNCHANGED <<callbacks, components, outputs, handle, partial, update_thread,
                   last_state, loop_running, use_bluetooth, report_length, identity, pc,
                   caller, log>>

\* lines 305-306: the polling thread of this call is created and started
RacerStart ==
    /\ racer.pc = "start"
    /\ update_thread' = racer.k
    /\ pc' = [pc EXCEPT ![racer.k] = "loop"]
    /\ log' = [t \in Opens |-> IF pc[t] = "dead" THEN NoLog ELSE log[t]]
    /\ racer' = [racer EXCEPT !.pc = "clear"]
    /\ fired' = <<>>
    /\ op' = Op("open", 0, FALSE, 0, "start", "none")
    /\ UNCHANGED <<callbacks, components, outputs, device, handle, partial,
                   update_thread_running, last_state, loop_running, use_bluetooth,
                   report_length, identity, caller>>

\* line 307, and the return of open(hold=False)
RacerClear ==
    /\ racer.pc = "clear"
    /\ loop_running' = FALSE
    /\ racer' = RacerIdle
    /\ fired' = <<>>
    /\ op' = Op("open", 0, FALSE, 0, "return", "none")
    /\ UNCHANGED <<callbacks, components, outputs, device, handle, partial, update_thread,
                   update_thread_running, last_state, use_bluetooth, report_length,
                   identity, pc, caller, log>>

\* The steps of the polling thread t on whole reports with nothing held,
\* of a program that has registered no callable.
RaceThread(t) ==
    \/ PollLoop(t)
    \/ \E outcome \in {"returns", "OSError"}, beh \in BehavioursOf(DecodeEvents) :
            PollRead(t, outcome, USB_REPORT_LENGTH, [cross |-> FALSE, roll |-> 0, status |-> 0],
                     beh)
    \/ \E beh \in BehavioursOf({"on_state"}) : PollConn(t, beh)
    \/ \E outcome \in {"returns", "OSError"} : PollWrite(t, outcome)
    \/ \E beh \in BehavioursOf({"on_update"}) : PollMark(t, beh)
    \/ \E beh \in BehavioursOf({"on_state"}) : PollFinally(t, beh)
    \/ PollExit(t)

NextOpenRace ==
    \/ \E given \in BOOLEAN, outcome \in {"usb", "firmware_fails"} :
            Open(given, FALSE, FALSE, outcome)
    \/ OpenClear
    \/ Close
    \/ RacerTest
    \/ \E outcome \in {"usb", "firmware_fails"} : RacerSetup(outcome)
    \/ RacerBind
    \/ RacerStart
    \/ RacerClear
    \/ \E t \in Opens : RaceThread(t)

SpecOpenRace == Init /\ [][NextOpenRace]_vars

(***************************************************************************)
(* SpecTouchpadRace: a thread of the program in the setters of the         *)
(* touchpad LEDs while the polling thread is in Touchpad.get_report().     *)
(* Neither takes a lock, so every attribute load and store is a step.      *)
(***************************************************************************)
\* led_color = color up to line 141: the tests, and the store of _led_changed
LedColorBegin(color) ==
    /\ setter.pc = "idle"
    /\ IF Len(color) = 3 /\ InRange(color)
       THEN /\ touchpad' = [touchpad EXCEPT !.led_changed = TRUE]
            /\ setter' = [pc |-> "led_r", color |-> color]
       ELSE UNCHANGED <<touchpad, setter>>
    /\ output_report' = NoReport
    /\ fired' = <<>>
    /\ op' = Op("led_color", 0, FALSE, 0, "led_changed", "none")
    /\ UNCHANGED <<callbacks, components, session, dirty, brightness,
                   brightness_dirty, encoder, writes>>

\* led_off(), line 145
LedOffBegin ==
    /\ setter.pc = "idle"
    /\ touchpad' = [touchpad EXCEPT !.led_changed = TRUE]
    /\ setter' = [pc |-> "led_r", color |-> <<0, 0, 0>>]
    /\ output_report' = NoReport
    /\ fired' = <<>>
    /\ op' = Op("led_off", 0, FALSE, 0, "led_changed", "none")
    /\ UNCHANGED <<callbacks, components, session, dirty, brightness,
                   brightness_dirty, encoder, writes>>

\* lines 142 and 146: the three stores of the unpacking assignment
SetterStore ==
    /\ setter.pc \in {"led_r", "led_g", "led_b"}
    /\ touchpad' = CASE setter.pc = "led_r" -> [touchpad EXCEPT !.led_r = setter.color[1]]
                     [] setter.pc = "led_g" -> [touchpad EXCEPT !.led_g = setter.color[2]]
                     [] setter.pc = "led_b" -> [touchpad EXCEPT !.led_b = setter.color[3]]
    /\ setter' = CASE setter.pc = "led_r" -> [setter EXCEPT !.pc = "led_g"]
                   [] setter.pc = "led_g" -> [setter EXCEPT !.pc = "led_b"]
                   [] setter.pc = "led_b" -> SetterIdle
    /\ output_report' = NoReport
    /\ fired' = <<>>
    /\ op' = Op("store", 0, FALSE, 0, setter.pc, "none")
    /\ UNCHANGED <<callbacks, components, session, dirty, brightness,
                   brightness_dirty, encoder, writes>>

\* fade_to_blue() and Touchpad.force_update(): one store each
SetterFlag(call) ==
    /\ setter.pc = "idle"
    /\ touchpad' = IF call = "fade_to_blue" THEN FadeToBlue(touchpad)
                   ELSE TouchpadForceUpdate(touchpad)
    /\ output_report' = NoReport
    /\ fired' = <<>>
    /\ op' = Op(call, 0, FALSE, 0, "none", "none")
    /\ UNCHANGED <<callbacks, components, session, dirty, brightness,
                   brightness_dirty, setter, encoder, writes>>

\* Touchpad.get_report() on the polling thread, a line or an attribute load
\* at a step: lines 188, 189 and 190 read the flags, 192 and 193 clear
\* them, and line 194 loads _led_r, _led_g and _led_b and returns; the
\* values returned go into the report (dualsense.py:468-471).
GetReportStep ==
    /\ CASE encoder.pc = "idle" ->
              /\ encoder' = [encoder EXCEPT !.pc = "189",
                                !.flag = IF touchpad.led_changed THEN TOUCHPAD_LED ELSE {}]
              /\ UNCHANGED touchpad /\ output_report' = NoReport
         [] encoder.pc = "189" ->
              /\ encoder' = [encoder EXCEPT !.pc = "190",
                                !.led_flag = IF touchpad.fade_to_blue THEN TOUCHPAD ELSE {}]
              /\ UNCHANGED touchpad /\ output_report' = NoReport
         [] encoder.pc = "190" ->
              /\ encoder' = [encoder EXCEPT !.pc = "192",
                                !.led_mode = IF touchpad.fade_to_blue THEN FADE_BLUE ELSE 0]
              /\ UNCHANGED touchpad /\ output_report' = NoReport
         [] encoder.pc = "192" ->
              /\ touchpad' = [touchpad EXCEPT !.led_changed = FALSE]
              /\ encoder' = [encoder EXCEPT !.pc = "193"]
              /\ output_report' = NoReport
         [] encoder.pc = "193" ->
              /\ touchpad' = [touchpad EXCEPT !.fade_to_blue = FALSE]
              /\ encoder' = [encoder EXCEPT !.pc = "led_r"]
              /\ output_report' = NoReport
         [] encoder.pc = "led_r" ->
              /\ encoder' = [encoder EXCEPT !.pc = "led_g", !.r = touchpad.led_r]
              /\ UNCHANGED touchpad /\ output_report' = NoReport
         [] encoder.pc = "led_g" ->
              /\ encoder' = [encoder EXCEPT !.pc = "led_b", !.g = touchpad.led_g]
              /\ UNCHANGED touchpad /\ output_report' = NoReport
         [] encoder.pc = "led_b" ->
              /\ encoder' = EncoderIdle
              /\ UNCHANGED touchpad
              /\ output_report' = [flag2 |-> encoder.flag,
                                   touchpad_led |-> <<encoder.r, encoder.g, touchpad.led_b>>,
                                   led_flags |-> encoder.led_flag,
                                   led_mode |-> encoder.led_mode]
    /\ fired' = <<>>
    /\ op' = Op("get_report", 1, FALSE, 0, encoder.pc, "none")
    /\ UNCHANGED <<callbacks, components, session, dirty, brightness,
                   brightness_dirty, setter, writes>>

NextTouchpadRace ==
    \/ \E color \in ColorArguments : LedColorBegin(color)
    \/ LedOffBegin
    \/ SetterStore
    \/ \E call \in {"fade_to_blue", "force_update"} : SetterFlag(call)
    \/ GetReportStep

SpecTouchpadRace == Init /\ [][NextTouchpadRace]_vars

(***************************************************************************)
(* SpecObserve: the updates of a Button, the Dpad, a Thumbstick, a         *)
(* TouchPoint and the battery values, each followed from dispatch to       *)
(* dispatch: the variables of a state whose `fired` holds a dispatch are   *)
(* what the callables of that dispatch read from the accessors.            *)
(***************************************************************************)
\* a callable of the program on each event that reports a new state
ObserveSubscribed == [e \in Events |->
                        CASE e = "cross.on_press" -> <<1>>
                          [] e = "cross.on_state" -> <<2>>
                          [] e = "dpad.on_direction" -> <<3>>
                          [] e = "left_stick.on_move" -> <<4>>
                          [] e = "touch_point_1.on_move" -> <<5>>
                          [] e = "on_battery_percent" -> <<6>>
                          [] e = "on_battery_state" -> <<7>>
                          [] OTHER -> <<>>]

InitObserve == callback_list = ObserveSubscribed /\ Constructed

\* The inputs of the updates: the Dpad codes of Up, Down-Left and nothing
\* held; the stick at rest, in a corner, or no position passed; a touch
\* at the origin, one at the far corner and its release.
ObserveDpadCodes == {0, 5, 8}
ObserveStickArguments == {<<0, 0>>, <<-127, 128>>, NoPos}
ObserveTouchReports == {<<0, TRUE, 0, 0>>, <<1, TRUE, 1919, 1079>>, <<1, FALSE, 1919, 1079>>}

\* no update is under way
Between == op.step \in {"none", "done"}

\* the place after a dispatch: an exception leaves the update
After(raised, step) == IF raised # "none" THEN "done" ELSE step

\* Button.update(state) of cross up to the end of line 44: the store of
\* _pressed, then on_press
ObserveButtonPress(state, beh) ==
    LET p == CallbackCall("cross.on_press", <<>>, beh)
    IN  /\ Between
        /\ IF state = cross
           THEN /\ fired' = <<>>
                /\ op' = Op("button.update", 0, state, 0, "done", "none")
                /\ UNCHANGED cross
           ELSE /\ cross' = state
                /\ fired' = IF state THEN <<p>> ELSE <<>>
                /\ op' = IF state
                         THEN Op("button.update", 0, state, 0, After(p.raised, "on_press"),
                                 p.raised)
                         ELSE Op("button.update", 0, state, 0, "on_press", "none")
        /\ UNCHANGED <<callbacks, roll, battery_percent, battery_state, dpad, controls,
                       session, outputs>>

\* Button.update, line 45: on_state
ObserveButtonState(beh) ==
    LET e == CallbackCall("cross.on_state", <<op.state>>, beh)
    IN  /\ op.name = "button.update" /\ op.step = "on_press"
        /\ fired' = <<e>>
        /\ op' = [op EXCEPT !.step = "done", !.raised = e.raised]
        /\ UNCHANGED <<callbacks, components, session, outputs>>

\* Dpad.update(value) up to the end of line 136: the stores of _dpad_raw and
\* _dpad_direction, then on_direction
ObserveDirection(value, beh) ==
    LET direction == build_from_value(value)
        e == CallbackCall("dpad.on_direction", <<direction>>, beh)
    IN  /\ Between
        /\ IF value = dpad.raw
           THEN /\ fired' = <<>>
                /\ op' = Op("dpad.update", 0, FALSE, value, "done", "none")
                /\ UNCHANGED dpad
           ELSE /\ dpad' = [dpad EXCEPT !.raw = value, !.direction = direction]
                /\ fired' = <<e>>
                /\ op' = Op("dpad.update", 0, FALSE, value, After(e.raised, "on_direction"),
                            e.raised)
        /\ UNCHANGED <<callbacks, cross, roll, battery_percent, battery_state, controls,
                       session, outputs>>

\* the flag of the DpadDirection that the Button b of the Dpad follows
DirectionOf(b) ==
    CASE b = "up" -> DpadDirection_UP
      [] b = "down" -> DpadDirection_DOWN
      [] b = "left" -> DpadDirection_LEFT
      [] b = "right" -> DpadDirection_RIGHT

\* Dpad.update, lines 138-141, on the Dpad d for the Buttons `names`: the
\* Dpad after them, the dispatches made and the exception that leaves
\* update
RECURSIVE DpadButtons(_, _, _, _)
DpadButtons(d, names, dispatched, beh) ==
    IF names = <<>> THEN [dpad |-> d, fired |-> dispatched, raised |-> "none"]
    ELSE LET b == Head(names)
             u == ButtonUpdate(d[b], Has(d.direction, DirectionOf(b)),
                               OnPress("dpad." \o b), OnState("dpad." \o b), beh)
             d1 == [d EXCEPT ![b] = u.pressed]
         IN  IF u.raised # "none"
             THEN [dpad |-> d1, fired |-> dispatched \o u.fired, raised |-> u.raised]
             ELSE DpadButtons(d1, Tail(names), dispatched \o u.fired, beh)

\* Dpad.update, lines 138-141: the four Buttons
ObserveDpadButtons(beh) ==
    LET r == DpadButtons(dpad, <<"up", "down", "left", "right">>, <<>>, beh)
    IN  /\ op.name = "dpad.update" /\ op.step = "on_direction"
        /\ dpad' = r.dpad
        /\ fired' = r.fired
        /\ op' = [op EXCEPT !.step = "done", !.raised = r.raised]
        /\ UNCHANGED <<callbacks, cross, roll, battery_percent, battery_state, controls,
                       session, outputs>>

\* Thumbstick.update(pressed, pos) of the left stick, line 54: Button.update
ObserveStickPress(pressed, pos, beh) ==
    LET u == ButtonUpdate(buttons["left_stick"], pressed, OnPress("left_stick"),
                          OnState("left_stick"), beh)
    IN  /\ Between
        /\ buttons' = [buttons EXCEPT !["left_stick"] = u.pressed]
        /\ fired' = u.fired
        /\ op' = Op("thumbstick.update", 0, pos, 0, After(u.raised, "pressed"), u.raised)
        /\ UNCHANGED <<callbacks, cross, roll, battery_percent, battery_state, dpad,
                       stick_pos, touch_points, trigger_pos, session, outputs>>

\* Thumbstick.update, lines 55-57: the store of _pos, then on_move
ObserveStickMove(beh) ==
    LET pos == op.state
        m == CallbackCall(OnMove("left_stick"), <<pos>>, beh)
    IN  /\ op.name = "thumbstick.update" /\ op.step = "pressed"
        /\ IF pos # NoPos /\ pos # stick_pos["left_stick"]
           THEN /\ stick_pos' = [stick_pos EXCEPT !["left_stick"] = pos]
                /\ fired' = <<m>>
                /\ op' = [op EXCEPT !.step = "done", !.raised = m.raised]
           ELSE /\ fired' = <<>>
                /\ op' = [op EXCEPT !.step = "done"]
                /\ UNCHANGED stick_pos
        /\ UNCHANGED <<callbacks, cross, roll, battery_percent, battery_state, dpad,
                       buttons, touch_points, trigger_pos, session, outputs>>

\* TouchPoint.update(touch_point_report) of the first touch point, lines
\* 95-100: the stores of _id and _selected, then on_touch
ObserveTouch(touch_point_report, beh) ==
    LET tp == touch_points["touch_point_1"]
        selected == touch_point_report[2]
        t == CallbackCall(OnTouch("touch_point_1"), <<SubSeq(touch_point_report, 1, 2)>>, beh)
        raised == IF selected # tp.selected THEN t.raised ELSE "none"
    IN  /\ Between
        /\ touch_points' = [touch_points EXCEPT
                              !["touch_point_1"].id = touch_point_report[1],
                              !["touch_point_1"].selected = selected]
        /\ fired' = IF selected # tp.selected THEN <<t>> ELSE <<>>
        /\ op' = Op("touch_point.update", 0, touch_point_report, 0, After(raised, "on_touch"),
                    raised)
        /\ UNCHANGED <<callbacks, cross, roll, battery_percent, battery_state, dpad,
                       buttons, stick_pos, trigger_pos, session, outputs>>

\* TouchPoint.update, lines 102-105: the store of _pos, then on_move
ObserveTouchMove(beh) ==
    LET pos == <<op.state[3], op.state[4]>>
        m == CallbackCall(OnMove("touch_point_1"), <<pos>>, beh)
    IN  /\ op.name = "touch_point.update" /\ op.step = "on_touch"
        /\ IF pos # touch_points["touch_point_1"].pos
           THEN /\ touch_points' = [touch_points EXCEPT !["touch_point_1"].pos = pos]
                /\ fired' = <<m>>
                /\ op' = [op EXCEPT !.step = "done", !.raised = m.raised]
           ELSE /\ fired' = <<>>
                /\ op' = [op EXCEPT !.step = "done"]
                /\ UNCHANGED touch_points
        /\ UNCHANGED <<callbacks, cross, roll, battery_percent, battery_state, dpad,
                       buttons, stick_pos, trigger_pos, session, outputs>>

\* _update_inputs, lines 426-429, for the status byte: on_battery_percent
\* when the percentage differs from the stored one
ObservePercent(status, beh) ==
    LET percent == BatteryPercent(status)
        e == CallbackCall("on_battery_percent", <<percent>>, beh)
    IN  /\ Between
        /\ IF percent # battery_percent
           THEN /\ fired' = <<e>>
                /\ op' = Op("battery", 0, FALSE, status, After(e.raised, "on_battery_percent"),
                            e.raised)
           ELSE /\ fired' = <<>>
                /\ op' = Op("battery", 0, FALSE, status, "percent", "none")
        /\ UNCHANGED <<callbacks, components, session, outputs>>

\* _update_inputs, line 430: the store of _battery_percent
ObservePercentStore ==
    /\ op.name = "battery" /\ op.step = "on_battery_percent"
    /\ battery_percent' = BatteryPercent(op.len)
    /\ fired' = <<>>
    /\ op' = [op EXCEPT !.step = "percent"]
    /\ UNCHANGED <<callbacks, cross, roll, battery_state, dpad, controls, session, outputs>>

\* _update_inputs, lines 431-433: on_battery_state when the state differs
\* from the stored one
ObserveBatteryState(beh) ==
    LET state == BatteryStateFind((op.len \div 16) % 16)
        e == CallbackCall("on_battery_state", <<state>>, beh)
    IN  /\ op.name = "battery" /\ op.step = "percent"
        /\ IF state # battery_state
           THEN /\ fired' = <<e>>
                /\ op' = [op EXCEPT !.step = After(e.raised, "on_battery_state"),
                                    !.raised = e.raised]
           ELSE /\ fired' = <<>>
                /\ op' = [op EXCEPT !.step = "done"]
        /\ UNCHANGED <<callbacks, components, session, outputs>>

\* _update_inputs, line 434: the store of _battery_state
ObserveStateStore ==
    /\ op.name = "battery" /\ op.step = "on_battery_state"
    /\ battery_state' = BatteryStateFind((op.len \div 16) % 16)
    /\ fired' = <<>>
    /\ op' = [op EXCEPT !.step = "done"]
    /\ UNCHANGED <<callbacks, cross, roll, battery_percent, dpad, controls, session, outputs>>

\* one callable is registered on each event observed
ObserveBehaviours(ev) == BehavioursOf({ev})

NextObserve ==
    \/ \E state \in BOOLEAN, beh \in ObserveBehaviours("cross.on_press") :
            ObserveButtonPress(state, beh)
    \/ \E beh \in ObserveBehaviours("cross.on_state") : ObserveButtonState(beh)
    \/ \E value \in ObserveDpadCodes, beh \in ObserveBehaviours("dpad.on_direction") :
            ObserveDirection(value, beh)
    \/ \E beh \in BehavioursOf({}) : ObserveDpadButtons(beh)
    \/ \E pressed \in BOOLEAN, pos \in ObserveStickArguments, beh \in BehavioursOf({}) :
            ObserveStickPress(pressed, pos, beh)
    \/ \E beh \in ObserveBehaviours("left_stick.on_move") : ObserveStickMove(beh)
    \/ \E touch_point_report \in ObserveTouchReports, beh \in BehavioursOf({}) :
            ObserveTouch(touch_point_report, beh)
    \/ \E beh \in ObserveBehaviours("touch_point_1.on_move") : ObserveTouchMove(beh)
    \/ \E status \in StatusBytes, beh \in ObserveBehaviours("on_battery_percent") :
            ObservePercent(status, beh)
    \/ ObservePercentStore
    \/ \E beh \in ObserveBehaviours("on_battery_state") : ObserveBatteryState(beh)
    \/ ObserveStateStore

SpecObserve == InitObserve /\ [][NextObserve]_vars

(***************************************************************************)
(* lib/hid_helpers.py: the checksum of a Bluetooth output report.  A       *)
(* 32-bit value is the pair of its high and its low 16 bits.               *)
(***************************************************************************)
CRC32_SEED == 162
Half == 65536

\* a ^ b of two numbers below 2^16
RECURSIVE Xor(_, _)
Xor(a, b) ==
    IF a = 0 THEN b
    ELSE IF b = 0 THEN a
    ELSE ((a + b) % 2) + 2 * Xor(a \div 2, b \div 2)

\* 0xFFFFFFFF, and the polynomial 0xEDB88320 of crc32_le
AllOnes == <<65535, 65535>>
Polynomial == <<60856, 33568>>

\* crc >> 1
ShiftRight(crc) == <<crc[1] \div 2, (crc[2] \div 2) + (crc[1] % 2) * 32768>>

\* one bit of crc32_le: crc = (crc >> 1) ^ (polynomial if crc & 1 else 0)
CrcBit(crc) ==
    IF crc[2] % 2 = 1
    THEN <<Xor(ShiftRight(crc)[1], Polynomial[1]), Xor(ShiftRight(crc)[2], Polynomial[2])>>
    ELSE ShiftRight(crc)

RECURSIVE CrcBits(_, _)
CrcBits(crc, n) ==
    IF n = 0 THEN crc
    ELSE CHOOSE r \in {CrcBits(c, n - 1) : c \in {CrcBit(crc)}} : TRUE

\* crc32_le(crc, data) over the bytes lo .. hi of data: every byte is
\* xored into the low byte of crc, then eight bits are shifted out
RECURSIVE CrcBytes(_, _, _, _)
CrcBytes(crc, data, lo, hi) ==
    IF lo > hi THEN crc
    ELSE IF lo = hi THEN CrcBits(<<crc[1], Xor(crc[2], data[lo])>>, 8)
    ELSE CHOOSE r \in {CrcBytes(c, data, ((lo + hi) \div 2) + 1, hi) :
                          c \in {CrcBytes(crc, data, lo, (lo + hi) \div 2)}} : TRUE

crc32_le(crc, data) ==
    CHOOSE r \in {CrcBytes(c, d, 1, Len(d)) : c \in {crc}, d \in {data}} : TRUE

\* ~crc % (1 << 32), lines 93-96: of a crc in 0 .. 2^32 - 1, ~crc is
\* -crc - 1, and its residue is 2^32 - 1 - crc
NotUnsigned(crc) == <<(Half - 1) - crc[1], (Half - 1) - crc[2]>>

\* get_checksum(report, seed), lines 92-96
get_checksum(report, seed) == NotUnsigned(crc32_le(crc32_le(AllOnes, <<seed>>), report))

\* crc.to_bytes(4, CRC32_BYTE_ORDER), line 127 and const.py:6
ToBytesLittle(crc) == <<crc[2] % 256, crc[2] \div 256, crc[1] % 256, crc[1] \div 256>>

\* output_report[:-4], the list `output` without its last four elements
AllButLast4(output) ==
    SubSeq(output, 1, IF Len(output) > 4 THEN Len(output) - 4 ELSE 0)

\* An add_checksum that stores the checksum with the highest byte first.
AddChecksumBigEndian(output) ==
    LET crc == get_checksum(AllButLast4(output), CRC32_SEED)
    IN  AllButLast4(output)
            \o <<crc[1] \div 256, crc[1] % 256, crc[2] \div 256, crc[2] % 256>>

\* add_checksum(output_report), lines 124-127: the list after it
add_checksum(output) ==
    AllButLast4(output)
        \o ToBytesLittle(get_checksum(AllButLast4(output), CRC32_SEED))

(***************************************************************************)
(* SpecFrame: _generate_report() byte by byte, after setter calls and on   *)
(* either transport.  A report is the list of its bytes, the byte at       *)
(* offset o the element o + 1.                                             *)
(***************************************************************************)
\* The offsets of the payloads of the components whose values the model
\* does not follow (rumble 3-4, speaker 5-6, microphone 7, the audio flags
\* 8 and 10, the mic LED 9, the triggers 11-14 and 22-25, the player LEDs
\* 44), and the payloads they return: nothing, or bytes that tell the
\* offsets apart.
PayloadOffsets == (3 .. 14) \cup (22 .. 25) \cup {44}
Payloads == {[o \in PayloadOffsets |-> 0], [o \in PayloadOffsets |-> 100 + o]}

\* the brightness and the colour the program sets: LOW and red
FrameLevel == 2
FrameColor == <<255, 0, 0>>

RECURSIVE FlagByte(_)
FlagByte(flag) ==
    IF flag = {} THEN 0
    ELSE LET b == CHOOSE x \in flag : TRUE IN b + FlagByte(flag \ {b})

\* lines 442-501: the list of n zeros with the report id, the flag bytes
\* and the payloads stored at their offsets
ReportBody(report, payload, n) ==
    [i \in 1 .. n |->
        CASE i - 1 = 0 -> report.id
          [] i - 1 = 1 -> FlagByte(report.flag1)
          [] i - 1 = 2 -> FlagByte(report.flag2)
          [] i - 1 = 39 -> FlagByte(report.led_flags)
          [] i - 1 = 42 -> report.led_mode
          [] i - 1 = 43 -> report.brightness
          [] i - 1 \in 45 .. 47 -> report.touchpad_led[i - 45]
          [] i - 1 \in PayloadOffsets -> payload[i - 1]
          [] OTHER -> 0]

\* A framing that seals the body without the two bytes after the id.
FramedWithoutHeader(body, bluetooth) ==
    IF bluetooth THEN add_checksum(body) ELSE body

\* lines 503-508: on Bluetooth 0x00 and 0x10 are inserted after the report
\* id and the checksum is stored
Framed(body, bluetooth) ==
    IF bluetooth
    THEN add_checksum(<<body[1], 0, 16>> \o SubSeq(body, 2, Len(body)))
    ELSE body

\* open(), lines 295-296: the transport of the device found
SelectTransport(use_bt) ==
    /\ use_bluetooth' = use_bt
    /\ report_length' = IF use_bt THEN BLUETOOTH_REPORT_LENGTH ELSE USB_REPORT_LENGTH
    /\ output_report' = NoReport
    /\ fired' = <<>>
    /\ op' = Op("open", 0, use_bt, 0, "transport", "none")
    /\ UNCHANGED <<callbacks, components, touchpad, dirty, brightness, brightness_dirty,
                   writes, setter, encoder, device, handle, partial, update_thread,
                   update_thread_running, last_state, loop_running, identity, pc, caller,
                   racer, log>>

\* _generate_report(), lines 442-508, the components the model does not
\* follow returning `payload`: the step records the list before line 503
\* as op.state and the list returned as op.step
Generate(payload) ==
    \E g \in {GenerateReport(touchpad, dirty, brightness, brightness_dirty, use_bluetooth)} :
      \E body \in {ReportBody(g.report, payload,
                              IF use_bluetooth THEN report_length - 2 ELSE report_length)} :
        \E report \in {Framed(body, use_bluetooth)} :
            /\ touchpad' = g.touchpad
            /\ dirty' = g.dirty
            /\ brightness' = g.brightness
            /\ brightness_dirty' = g.brightness_dirty
            /\ output_report' = g.report
            /\ writes' = <<>>
            /\ fired' = <<>>
            /\ op' = Op("generate_report", 0, body, Len(report), report, "none")
            /\ UNCHANGED <<callbacks, components, session, setter, encoder>>

NextFrame ==
    \/ \E use_bt \in BOOLEAN : SelectTransport(use_bt)
    \/ \E c \in ReactComponents : Set(c)
    \/ \E c \in BrightnessOwners : SetBrightness(c, FrameLevel)
    \/ \E call \in {"led_color", "fade_to_blue"} : SetTouchpad(call, FrameColor)
    \/ \E payload \in Payloads : Generate(payload)

SpecFrame == Init /\ [][NextFrame]_vars

(***************************************************************************)
(* SpecTransport: input reports of either transport decoded by             *)
(* _update_inputs, the transport chosen by open().                         *)
(***************************************************************************)
\* The 78 bytes a controller on Bluetooth sends for the USB report r: the
\* report id 0x31, one byte more, the 63 bytes that follow the id on USB,
\* and 13 bytes behind them.
BluetoothReport(r) ==
    [i \in 0 .. (BLUETOOTH_REPORT_LENGTH - 1) |->
        CASE i = 0 -> 49
          [] i = 1 -> 193
          [] i \in 2 .. USB_REPORT_LENGTH -> r[i - 1]
          [] OTHER -> 170]

\* the reports of the model on either transport
TransportChoices == {<<1, 1, 0>>, <<2, 2, 24>>, <<3, 1, 42>>, <<1, 2, 53>>}
TransportReports ==
    LET usb == {InputReport(ButtonPatterns[c[1]], AnalogPatterns[c[2]], c[3]) :
                    c \in TransportChoices}
    IN  usb \cup {BluetoothReport(r) : r \in usb}

\* _update, lines 345-347: a buffer of the expected length is decoded; the
\* step records the buffer as op.step and what the callables do as op.state
DecodeRead(input_report, beh) ==
    /\ LengthMatches(Cardinality(DOMAIN input_report))
    /\ \E r \in {UpdateAllInputs(InputsNow, input_report, use_bluetooth, beh)} :
        /\ cross' = r.c.cross
        /\ buttons' = r.c.buttons
        /\ dpad' = r.c.dpad
        /\ trigger_pos' = r.c.trigger_pos
        /\ stick_pos' = r.c.stick_pos
        /\ touch_points' = r.c.touch_points
        /\ roll' = r.c.roll
        /\ battery_percent' = r.c.battery_percent
        /\ battery_state' = r.c.battery_state
        /\ fired' = r.fired
        /\ op' = Op("decode", 0, beh, report_length, input_report, r.raised)
        /\ UNCHANGED <<callbacks, session, outputs>>

NextTransport ==
    \/ \E use_bt \in BOOLEAN : SelectTransport(use_bt)
    \/ \E input_report \in TransportReports, beh \in BehavioursOf(Events) :
            DecodeRead(input_report, beh)

SpecTransport == InitDecode /\ [][NextTransport]_vars

(***************************************************************************)
(* SpecLifecycle: sessions opened, closed and ended by I/O errors, and     *)
(* setters called while no session is open.                                *)
(***************************************************************************)
\* the setters the program calls while the session is closed
SetClosed ==
    /\ ~is_open
    /\ \/ \E c \in ReactComponents : Set(c)
       \/ \E c \in BrightnessOwners, level \in ReactLevels : SetBrightness(c, level)
       \/ SetTouchpad("led_color", FrameColor)

NextLifecycle ==
    \/ \E given \in BOOLEAN, outcome \in {"usb", "firmware_fails"} :
            Open(given, FALSE, FALSE, outcome)
    \/ OpenClear
    \/ Close
    \/ \E t \in Opens : LoopThread(t)
    \/ SetClosed

SpecLifecycle == Init /\ [][NextLifecycle]_vars

(***************************************************************************)
(* SpecForce: force_update() of the touchpad and of the session, called    *)
(* while the polling thread of an open session decodes and encodes.        *)
(***************************************************************************)
NextForce ==
    \/ \E t \in Opens : LoopThread(t)
    \/ ForceUpdate
    \/ \E call \in {"led_color", "fade_to_blue", "force_update"} :
            SetTouchpad(call, FrameColor)
    \/ \E c \in BrightnessOwners : SetBrightness(c, FrameLevel)

SpecForce == InitLoop /\ [][NextForce]_vars

(***************************************************************************)
(* Properties                                                              *)
(***************************************************************************)
\* the number of dispatches of the event ev among the dispatches f
CountEvent(f, ev) == Cardinality({i \in 1 .. Len(f) : f[i].ev = ev})

\* C1: over any sequence of Button.update calls from the released state,
\* on_press is dispatched exactly once by an update that takes the button
\* from not pressed to pressed, and not at all by an update that repeats
\* the stored state or that releases the button.
C1_OnPressOncePerPress ==
    [][op'.name = "update" =>
         CountEvent(fired', "cross.on_press") = IF ~cross /\ op'.state THEN 1 ELSE 0]_vars

\* C1 happens: a press has just dispatched on_press to two callables.
C1_Witness ==
    /\ op.name = "update" /\ op.state /\ cross
    /\ CountEvent(fired, "cross.on_press") = 1
    /\ Len(fired[1].invoked) = 2

\* C2: an update that changes the pressed state dispatches on_state exactly
\* once, with the new state, to every callable registered on on_state; an
\* update that repeats the stored state dispatches nothing.
C2_OnStateEveryTransition ==
    [][op'.name = "update" =>
         IF op'.state # cross
         THEN /\ CountEvent(fired', "cross.on_state") = 1
              /\ \A i \in 1 .. Len(fired') :
                    fired'[i].ev = "cross.on_state" =>
                        /\ fired'[i].arg = <<op'.state>>
                        /\ fired'[i].invoked = fired'[i].registered
         ELSE fired' = <<>>]_vars

\* C3: no dispatch lets an exception of a callable reach its caller, and
\* every dispatch invokes every callable registered on its event.
C3_DispatchIsolatesFailures ==
    \A i \in 1 .. Len(fired) :
        /\ fired[i].raised = "none"
        /\ fired[i].invoked = fired[i].registered

\* C4: no polling thread leaves its loop because a callable failed.
C4_CallbackFailureKeepsPolling ==
    \A t \in Opens : log[t].cause # "callback"

\* C5: a polling thread that has fired on_state(True) and has ended has
\* closed its handle and fired on_state(False) after it, and _last_state
\* is false again.
C5_DisconnectIsReported ==
    \A t \in Opens :
        (pc[t] = "dead" /\ log[t].conn # <<>> /\ log[t].conn[1]) =>
            /\ handle[t] = "closed"
            /\ log[t].conn = <<TRUE, FALSE>>
            /\ ~last_state

\* the number of on_state(True) dispatches of the thread t
ConnectsOf(t) == Cardinality({i \in 1 .. Len(log[t].conn) : log[t].conn[i]})

\* C6: every polling thread fires on_state(True) at most once, only once it
\* has read a report of the expected length, and has fired it when it
\* goes on to write after such a read.
C6_ConnectOncePerSession ==
    \A t \in Opens :
        /\ ConnectsOf(t) <= 1
        /\ ConnectsOf(t) = 1 => log[t].good
        /\ (log[t].good /\ pc[t] \in {"write", "mark"}) => ConnectsOf(t) = 1

\* C7: open() on an open session raises an IO-kind error.
C7_OpenTwiceRaises ==
    (op.name = "open" /\ op.step = "already_open") => op.raised = "IOError"

\* C8: an open() whose setup fails raises an IO-kind error, leaves no
\* handle open, starts no thread and changes neither the transport mode,
\* the report length nor the stored identity of the device.
C8_FailedSetupLeavesClosed ==
    [][(op'.name = "open" /\ op'.step \in {"discovery", "serial_lookup", "pairing", "firmware"}) =>
         /\ op'.raised = "IOError"
         /\ partial' # "open"
         /\ ~is_open'
         /\ UNCHANGED <<pc, update_thread, use_bluetooth, report_length, identity>>]_vars

\* C9: a read or write that raises OSError takes the polling thread out of
\* its loop; from then on that thread reads and writes no more, it ends
\* with its handle closed, and only open() starts a polling thread.
C9_NoRetryAfterIOError ==
    [][\A t \in Opens :
         /\ (op'.t = t /\ op'.name \in {"read", "write"} /\ op'.raised = "OSError") =>
                /\ pc'[t] = "finally"
                /\ log'[t].cause = "io"
         /\ log[t].cause = "io" =>
                /\ ~(op'.t = t /\ op'.name \in {"loop", "read", "conn", "write", "mark"})
                /\ pc'[t] \in {"finally", "exit", "dead"}
         /\ (log'[t].cause = "io" /\ pc'[t] \in {"exit", "dead"}) => handle'[t] = "closed"
         /\ (pc[t] = "unborn" /\ pc'[t] # "unborn") => (op'.name = "open" /\ op'.t = 0)]_vars

\* C9 happens: a thread has ended after an OSError, and the caller is idle.
C9_Witness ==
    \E t \in Opens :
        /\ log[t].cause = "io" /\ pc[t] = "dead" /\ handle[t] = "closed"
        /\ log[t].good
        /\ caller.pc = "idle"

\* C10: a read that returns a buffer of another length than the report
\* length changes no component, battery or gyroscope value, fires no event,
\* and the thread goes on with the rest of the iteration.
C10_MisSizedReportDiscarded ==
    [][(op'.name = "read" /\ op'.raised # "OSError" /\ op'.len # report_length) =>
         /\ UNCHANGED components
         /\ fired' = <<>>
         /\ pc'[op'.t] = "conn"
         /\ log'[op'.t].cause = "none"]_vars

\* C10 happens: over Bluetooth a 64-byte buffer has been discarded while
\* the components hold decoded values.
C10_Witness ==
    /\ op.name = "read" /\ op.step = "discard" /\ op.len = USB_REPORT_LENGTH
    /\ use_bluetooth
    /\ cross /\ roll # 0 /\ battery_percent # 0
    /\ pc[op.t] = "conn"

\* C11: once close() has found the session open, the polling thread of the
\* session ends, and it ends with its handle closed; the stop flag stays
\* down while the thread lives, and a loop head that finds it down starts
\* no read: the thread goes to its finally clause and reads and writes no
\* more.
C11_CloseStopsPolling ==
    /\ (op.name = "close" /\ op.state) ~> ~is_open
    /\ [][/\ \A t \in Opens :
                 (pc[t] # "dead" /\ pc'[t] = "dead") => handle'[t] = "closed"
          /\ (~update_thread_running /\ is_open) => ~update_thread_running'
          /\ (op'.name = "loop" /\ ~update_thread_running) =>
                 pc'[op'.t] = "finally"
          /\ \A t \in Opens :
                 log[t].cause = "stop" =>
                     ~(op'.t = t /\ op'.name \in {"loop", "read", "conn", "write", "mark"})]_vars

\* C11 happens: a thread that has read a report has ended on the stop flag
\* with its handle closed.
C11_Witness ==
    \E t \in Opens :
        /\ log[t].cause = "stop" /\ log[t].good
        /\ pc[t] = "dead" /\ handle[t] = "closed"

\* the operation the last step made on a hid handle ("none": it made none)
DeviceIO ==
    CASE op.name = "read" -> "read"
      [] op.name = "write" -> "write"
      [] op.name = "finally" -> "close"
      [] op.name = "get_calibration_info" /\ op.step = "feature_report" -> "get_feature_report"
      [] op.name = "open" /\ op.step \in {"serial_lookup", "pairing", "firmware", "start"} ->
             "get_feature_report"
      [] OTHER -> "none"

\* C12: a step that operates on a hid handle while the polling thread of the
\* session is alive is a step of that polling thread.
C12_OnlyPollingThreadDoesIO ==
    [][(is_open /\ DeviceIO' # "none") => op'.t = update_thread]_vars

\* C13: the colour of the touchpad LEDs in a report is the colour of
\* construction or the whole colour passed to one setter call, never a mix
\* of two colours.
C13_NoTornLedColor ==
    output_report # NoReport =>
        output_report.touchpad_led \in TouchpadColors \cup {<<0, 0, 0>>}

\* the bits of every output-bearing component
AllFlags1 == RUMBLE \cup RIGHT_TRIGGER \cup LEFT_TRIGGER \cup INTERNAL_SPEAKER_VOLUME
                \cup MICROPHONE_VOLUME
AllFlags2 == MICROPHONE_LED \cup AUDIO_MIC_MUTE \cup TOUCHPAD_LED \cup PLAYER_LEDS

\* C14: an encode pass with no setter call and no force_update() since
\* construction or since the pass before it builds a report whose two flag
\* bytes are zero, and every encode pass leaves no component dirty.
C14_CleanEncodeHasNoFlags ==
    [][op'.name = "encode" =>
         /\ writes = <<>> => (output_report'.flag1 = {} /\ output_report'.flag2 = {})
         /\ \A c \in OutputComponents : ~dirty'[c]
         /\ ~touchpad'.led_changed]_vars

\* C14 happens: a pass with no call before it has followed a pass that
\* reported dirty components.
C14_Witness ==
    /\ op.name = "encode" /\ output_report.flag1 = {} /\ output_report.flag2 = {}
    /\ writes = <<>>
    /\ touchpad.led_r = 255

\* C15: force_update() marks all nine components dirty, and the encode pass
\* after it sets the bit of every one of them in the two flag bytes.
C15_ForceUpdateMarksAll ==
    [][/\ op'.name = "force_update" =>
             /\ \A c \in OutputComponents : dirty'[c]
             /\ touchpad'.led_changed
       /\ (op'.name = "encode" /\ \E i \in 1 .. Len(writes) : writes[i].call = "force_update")
             => (output_report'.flag1 = AllFlags1 /\ output_report'.flag2 = AllFlags2)]_vars

\* C15 happens: a pass after force_update() has set every bit.
C15_Witness ==
    /\ op.name = "encode"
    /\ output_report.flag1 = AllFlags1 /\ output_report.flag2 = AllFlags2

\* C16: in every encode pass at most one of MicButton and PlayerLed assigns
\* the brightness byte, and after a pass in which one did, the brightness of
\* both components equals the byte of the report.
C16_BrightnessReconciled ==
    [][op'.name = "encode" =>
         /\ Len(output_report'.brightness_set_by) <= 1
         /\ Len(output_report'.brightness_set_by) = 1 =>
                \A c \in BrightnessOwners : brightness'[c] = output_report'.brightness]_vars

\* C16 happens: the mic button has set the byte to LOW, and the player LEDs
\* read LOW after the pass.
C16_Witness ==
    /\ op.name = "encode"
    /\ output_report.brightness_set_by = <<"mic_button">>
    /\ output_report.brightness = 2
    /\ brightness["player_led"] = 2

\* the brightness writes among the setter calls w
BrightnessWrites(w) == SelectSeq(w, LAMBDA e : e.call = "brightness")

\* C17: after brightness writes through both components, the next report
\* carries the brightness written last.
C17_LastBrightnessWins ==
    [][LET bw == BrightnessWrites(writes)
       IN  (op'.name = "encode" /\ {bw[i].c : i \in 1 .. Len(bw)} = BrightnessOwners) =>
               output_report'.brightness = bw[Len(bw)].value]_vars

\* C18: once a brightness is set through one component, both components
\* read that brightness.
C18_BrightnessReadsThrough ==
    (writes # <<>> /\ writes[Len(writes)].call = "brightness") =>
        \A c \in BrightnessOwners : brightness[c] = writes[Len(writes)].value

\* the table of the d-pad codes: 0 Up, 1 Up+Right, 2 Right, 3 Right+Down,
\* 4 Down, 5 Down+Left, 6 Left, 7 Left+Up, 8 None
DocumentedDirection(c) ==
    CASE c = 0 -> DpadDirection_UP
      [] c = 1 -> DpadDirection_UP \cup DpadDirection_RIGHT
      [] c = 2 -> DpadDirection_RIGHT
      [] c = 3 -> DpadDirection_RIGHT \cup DpadDirection_DOWN
      [] c = 4 -> DpadDirection_DOWN
      [] c = 5 -> DpadDirection_DOWN \cup DpadDirection_LEFT
      [] c = 6 -> DpadDirection_LEFT
      [] c = 7 -> DpadDirection_LEFT \cup DpadDirection_UP
      [] c = 8 -> DpadDirection_NONE

\* C19: the direction build_from_value returns for a code is the flag
\* combination of the table, with no flag outside of it.
C19_DirectionIsTheTable ==
    (op.name = "dpad.update" /\ op.state) => dpad.direction = DocumentedDirection(op.len)

\* the four direction flags
DirectionFlags == {DpadDirection_UP, DpadDirection_DOWN, DpadDirection_LEFT,
                   DpadDirection_RIGHT}

\* C20: in every state of a Dpad the direction has the flags of the table
\* for the stored raw code, and each of the four Buttons is pressed exactly
\* when the direction has its flag.
C20_DpadMirrorsCode ==
    /\ \A f \in DirectionFlags :
          Has(dpad.direction, f) <=> Has(DocumentedDirection(dpad.raw), f)
    /\ dpad.up = Has(dpad.direction, DpadDirection_UP)
    /\ dpad.down = Has(dpad.direction, DpadDirection_DOWN)
    /\ dpad.left = Has(dpad.direction, DpadDirection_LEFT)
    /\ dpad.right = Has(dpad.direction, DpadDirection_RIGHT)

\* C21: a TouchPoint that has had no update reports inactive with the
\* position (-1,-1); an update dispatches on_touch exactly once when its
\* active value differs from the stored one and not otherwise, and on_move
\* exactly once when its (x,y) differs from the stored position and not
\* otherwise.
C21_TouchPointEdges ==
    /\ \A p \in TouchPointNames :
          ~touch_points[p].selected /\ TouchPointIter(touch_points[p]) = <<-1, -1>>
    /\ [][op'.name = "touch_point.update" =>
            LET p == op'.t
                r == op'.step
            IN  /\ CountEvent(fired', OnTouch(p)) =
                       IF r[2] # touch_points[p].selected THEN 1 ELSE 0
                /\ CountEvent(fired', OnMove(p)) =
                       IF <<r[3], r[4]>> # touch_points[p].pos THEN 1 ELSE 0]_vars

\* C22: an update of a Thumbstick dispatches on_move exactly once, with the
\* new position, when a position is passed that differs from the stored
\* one, and not otherwise, whatever the pressed argument; on_press is
\* dispatched on the press edge as by a Button.
C22_StickMovesOnChange ==
    [][op'.name = "stick.update" =>
         LET b == op'.t
             pos == op'.step
         IN  /\ CountEvent(fired', OnMove(b)) =
                    IF pos # NoPos /\ pos # stick_pos[b] THEN 1 ELSE 0
             /\ \A i \in 1 .. Len(fired') :
                    fired'[i].ev = OnMove(b) => fired'[i].arg = <<pos>>
             /\ CountEvent(fired', OnPress(b)) =
                    IF ~buttons[b] /\ op'.state THEN 1 ELSE 0]_vars

\* C23: after the decode of a 64-byte USB report every Button holds its
\* documented bit (square, cross, circle and triangle the bits 0x10, 0x20,
\* 0x40 and 0x80 of byte 8, the d-pad code its low nibble; the bumpers,
\* share, options and the stick clicks bits of byte 9; PS, the touchpad
\* click and mic bits of byte 10), and every stick axis holds its byte
\* minus 127, within [-127, 128].
C23_DecodeByDocumentedBits ==
    (op.name = "decode" /\ ~use_bluetooth) =>
        LET r == op.step
        IN  /\ buttons["square"] = Bit(r[8], 16)
            /\ cross = Bit(r[8], 32)
            /\ buttons["circle"] = Bit(r[8], 64)
            /\ buttons["triangle"] = Bit(r[8], 128)
            /\ dpad.raw = r[8] % 16
            /\ buttons["left_bumper"] = Bit(r[9], 1)
            /\ buttons["right_bumper"] = Bit(r[9], 2)
            /\ buttons["share"] = Bit(r[9], 16)
            /\ buttons["options"] = Bit(r[9], 32)
            /\ buttons["left_stick"] = Bit(r[9], 64)
            /\ buttons["right_stick"] = Bit(r[9], 128)
            /\ buttons["ps"] = Bit(r[10], 1)
            /\ buttons["touchpad"] = Bit(r[10], 2)
            /\ buttons["mic_button"] = Bit(r[10], 4)
            /\ stick_pos["left_stick"] = <<r[1] - 127, r[2] - 127>>
            /\ stick_pos["right_stick"] = <<r[3] - 127, r[4] - 127>>
            /\ \A b \in StickNames, i \in 1 .. 2 :
                  -127 <= stick_pos[b][i] /\ stick_pos[b][i] <= 128

\* the charge state of the table for the index n
DocumentedChargeState(n) ==
    IF n = 0 THEN "DISCHARGING"
    ELSE IF n = 1 THEN "FULL"
    ELSE IF n = 2 THEN "CHARGING"
    ELSE IF n = 10 THEN "INCORRECT_VOLTAGE"
    ELSE IF n = 11 THEN "TEMPERATURE_ERROR"
    ELSE IF n = 15 THEN "ERROR"
    ELSE "UNKNOWN"

\* C24: after the decode of a report with the status byte s, the battery
\* percent is min((s & 0x0f)*10+5, 100) and the charge state the table
\* entry of the high nibble; on_battery_percent and on_battery_state are
\* dispatched only when the value differs from the stored one.
C24_BatteryFollowsStatus ==
    [][op'.name = "decode" =>
         LET s == op'.step[53]
             percent == IF ((s % 16) * 10) + 5 > 100 THEN 100 ELSE ((s % 16) * 10) + 5
             state == DocumentedChargeState(s \div 16)
         IN  /\ battery_percent' = percent
             /\ battery_state' = state
             /\ CountEvent(fired', "on_battery_percent") > 0 => percent # battery_percent
             /\ CountEvent(fired', "on_battery_state") > 0 => state # battery_state]_vars

\* C25: every dispatch of an event hands every coroutine function
\* registered on it to the event loop and invokes every other callable
\* registered on it, so that each registered callable runs once per firing.
C25_DeferredDispatch ==
    \A i \in 1 .. Len(fired) :
        /\ fired[i].scheduled = fired[i].deferred
        /\ fired[i].invoked = fired[i].registered

\* C26: a polling iteration that reaches its completion mark has made
\* exactly one read, then one build of the output report, then one write
\* of it, whatever the read returned and whether or not a component had
\* something to send.
C26_OneReadOneWritePerIteration ==
    [][op'.name = "mark" => log[op'.t].iter = <<"read", "build", "write">>]_vars

\* a report with no update flag has been written after a read of the wrong
\* size
C26_Witness ==
    /\ op.name = "write"
    /\ op.raised = "none"
    /\ pc[op.t] = "mark"
    /\ ~log[op.t].good
    /\ log[op.t].iter = <<"read", "build", "write">>
    /\ output_report # NoReport
    /\ output_report.flag1 = {}
    /\ output_report.flag2 = {}
    /\ output_report.led_flags = {}

\* C27: open(hold=True) returns only after the thread it started has read
\* from and then written to the device it opened, also when the completion
\* flag of an earlier session was still up when it was called.
C27_HoldWaitsForFirstIteration ==
    [][(op'.name = "open" /\ op'.step = "return" /\ caller.pc = "hold") =>
         /\ update_thread = caller.k
         /\ device = caller.k
         /\ log[caller.k].done]_vars

\* open(hold=True) has returned for the second session
C27_Witness ==
    /\ op.name = "open"
    /\ op.state
    /\ op.step = "return"
    /\ caller = Idle(2)
    /\ log[2].done

\* C28: an open(hold=True) that has started its thread returns in the end,
\* also when that thread ends before it has completed an iteration or
\* close() is called meanwhile.
C28_HoldTerminates ==
    (caller.pc = "hold") ~> (caller.pc = "idle")

\* C29: no call of a touchpad LED setter loses its mark: get_report()
\* clears _led_changed (line 192) only when it returns the TOUCHPAD_LED
\* flag, so that the mark of a setter that has returned is reported by the
\* get_report() in progress or is still up for the next one.
C29_NoDirtyMarkLost ==
    [][(op'.name = "get_report" /\ op'.step = "192" /\ touchpad.led_changed) =>
         encoder.flag = TOUCHPAD_LED]_vars

\* C30: the on_state dispatches of a session alternate and start with
\* True: on_state(False) is fired only after an on_state(True) of the same
\* session, and on_state(True) is not fired twice in a row.
C30_ConnectivityAlternates ==
    \A t \in Opens :
        \A i \in 1 .. Len(log[t].conn) : log[t].conn[i] = (i % 2 = 1)

\* the polling threads that have been started and have not ended
AliveThreads == {t \in Opens : pc[t] \notin {"unborn", "dead"}}

\* C31: whatever threads call open() and close(), at most one polling
\* thread is alive at a time, and a polling thread that ends lowers the
\* stop flag only when no thread has been started after it.
C31_OnePollingThread ==
    /\ [](Cardinality(AliveThreads) <= 1)
    /\ [][\A t \in Opens :
             (pc[t] = "exit" /\ pc'[t] = "dead" /\ update_thread_running) =>
                 update_thread = t]_vars

\* the number of times the callable f occurs in the list
Occurrences(list, f) == Cardinality({j \in 1 .. Len(list) : list[j] = f})

\* C32: when a dispatch ends, every callable that was registered when it
\* started and was not unregistered before its turn has been invoked
\* exactly once, whatever was registered and unregistered meanwhile.
C32_EveryCallableInvokedOnce ==
    (op.name = "call" /\ op.step = "end") =>
        \A f \in Range(dispatch.start) \ dispatch.gone :
            Occurrences(dispatch.invoked, f) = 1

\* what the accessors of the owning object return in the state where the
\* dispatch e is made, against the state the dispatch reports
ReadsNewState(e) ==
    /\ e.ev = "cross.on_press" => cross
    /\ e.ev = "cross.on_state" => cross = e.arg[1]
    /\ e.ev = "left_stick.on_move" => stick_pos["left_stick"] = e.arg[1]
    /\ e.ev = "touch_point_1.on_move" => touch_points["touch_point_1"].pos = e.arg[1]
    /\ e.ev = "dpad.on_direction" =>
            /\ dpad.direction = e.arg[1]
            /\ \A b \in {"up", "down", "left", "right"} :
                    dpad[b] = Has(e.arg[1], DirectionOf(b))
    /\ e.ev = "on_battery_percent" => battery_percent = e.arg[1]
    /\ e.ev = "on_battery_state" => battery_state = e.arg[1]

\* C33: while the callables of an event that reports a state change run,
\* the accessors of the owning object return the new state: the Button its
\* pressed value, the stick and the touch point their position, the Dpad
\* its direction with its four Buttons, the session its battery values.
C33_CallbackReadsNewState ==
    \A j \in 1 .. Len(fired) : fired[j].invoked # <<>> => ReadsNewState(fired[j])

\* the setter call w is the last of the calls made that write its register
\* (the flag of a component, the brightness, the colour of the touchpad)
LastWrite(ws, j) ==
    \A k \in (j + 1) .. Len(ws) :
        ws[k].call # ws[j].call \/ (ws[j].call = "set" /\ ws[k].c # ws[j].c)

\* the report carries what the setter call w wrote, with its flag bit
Carries(report, w) ==
    CASE w.call = "set" ->
            /\ ComponentFlag1(w.c) \subseteq report.flag1
            /\ ComponentFlag2(w.c) \subseteq report.flag2
      [] w.call = "brightness" ->
            PLAYER_MIC \subseteq report.led_flags /\ report.brightness = w.value
      [] w.call = "led_color" ->
            TOUCHPAD_LED \subseteq report.flag2 /\ report.touchpad_led = w.value

\* C34: the report a polling iteration writes carries, with its flag bit,
\* what the callables invoked by the decode of that iteration have set, and
\* on_update is dispatched only after that write has returned.
C34_CallbackSetterInSameReport ==
    [][/\ (op'.name = "write" /\ op'.raised = "none") =>
            \A j \in 1 .. Len(writes) :
                LastWrite(writes, j) => Carries(output_report', writes[j])
       /\ op'.name = "mark" => (op.name = "write" /\ op.raised = "none")]_vars

\* the offsets _generate_report stores to before line 503
WrittenOffsets == {0, 1, 2, 39, 42, 43} \cup (45 .. 47) \cup PayloadOffsets

\* C35: an assembled output report is zero wherever no component has
\* written; on USB it is 64 bytes, starts with 0x02 and is the list the
\* components wrote to; on Bluetooth it is 78 bytes, starts with 0x31, 0x00,
\* 0x10, carries every flag byte and payload two places further on, and its
\* last four bytes, those of the checksum, lie behind every payload.
C35_TransportFraming ==
    op.name = "generate_report" =>
        LET body == op.state
            report == op.step
        IN  /\ \A i \in 1 .. Len(body) : (i - 1) \notin WrittenOffsets => body[i] = 0
            /\ IF ~use_bluetooth
               THEN /\ Len(report) = 64
                    /\ report[1] = 2
                    /\ \A i \in 1 .. 64 : report[i] = body[i]
               ELSE /\ Len(report) = 78
                    /\ report[1] = 49 /\ report[2] = 0 /\ report[3] = 16
                    /\ \A o \in WrittenOffsets \ {0} :
                            o + 3 <= 78 - 4 /\ report[o + 3] = body[o + 1]
                    /\ \A i \in 4 .. 74 : (i - 3) \notin WrittenOffsets => report[i] = 0

\* a Bluetooth report with flags, payloads and a colour has been assembled
C35_Witness ==
    /\ op.name = "generate_report" /\ use_bluetooth
    /\ op.step[4] # 0 /\ op.step[6] # 0 /\ op.step[48] # 0

SkipLeading(input_report) ==
    [i \in 0 .. (Cardinality(DOMAIN input_report) - 2) |-> input_report[i + 1]]
SkipSecond(input_report) ==
    [i \in 0 .. (Cardinality(DOMAIN input_report) - 2) |->
        IF i = 0 THEN input_report[0] ELSE input_report[i + 1]]

\* C37: the decode of a 78-byte Bluetooth report makes the component
\* updates, and the dispatches, that the USB decode makes of the buffer
\* without the one byte Bluetooth carries in front of the fields, whether
\* that byte is taken to be the first or the second of the buffer.
C37_BluetoothDecodesAsUsb ==
    [][(op'.name = "decode" /\ use_bluetooth) =>
          \A skipped \in {SkipLeading(op'.step), SkipSecond(op'.step)} :
            \E u \in {UpdateAllInputs(InputsNow, skipped, FALSE, op'.state)} :
                /\ InputsNow' = u.c
                /\ fired' = u.fired
                /\ op'.raised = u.raised]_vars

\* a Bluetooth report has been decoded and has moved a stick, touched the
\* pad and changed the battery percentage
C37_Witness ==
    /\ op.name = "decode" /\ use_bluetooth
    /\ stick_pos["left_stick"] # <<0, 0>>
    /\ touch_points["touch_point_1"].selected
    /\ battery_percent = 85
    /\ fired # <<>>

\* the logical output values, the dirty flags and the decoded input state
\* of the components
ComponentState == <<components, touchpad, dirty, brightness, brightness_dirty>>

\* C38: open(), close() and the end of a polling thread, on an I/O error
\* or not, leave the state of every component as it is, and the first
\* report a session builds carries what was set while no session was open.
C38_StateSurvivesLifecycle ==
    [][/\ (\/ op'.name \in {"open", "close", "loop", "finally", "exit"}
           \/ op'.name = "read" /\ op'.raised = "OSError") =>
                UNCHANGED ComponentState
       /\ op'.name = "write" =>
            \A j \in 1 .. Len(writes) :
                LastWrite(writes, j) => Carries(output_report', writes[j])]_vars

\* C39: force_update() of the touchpad and of the session store nothing
\* but dirty marks, and lower none: the colour and the fade asked for, the
\* brightness, the decoded inputs and the session with its device are as
\* before, and the call reads and writes no report.
C39_ForceUpdateOnlyMarks ==
    [][(\/ op'.name = "force_update"
        \/ op'.name = "touchpad" /\ op'.step = "force_update") =>
            /\ touchpad' = [touchpad EXCEPT !.led_changed = TRUE]
            /\ brightness' = brightness
            /\ \A c \in OutputComponents : dirty[c] => dirty'[c]
            /\ \A c \in BrightnessOwners : brightness_dirty[c] => brightness_dirty'[c]
            /\ op'.name = "touchpad" => (dirty' = dirty /\ brightness_dirty' = brightness_dirty)
            /\ UNCHANGED <<components, session>>
            /\ op'.raised = "none"]_vars

\* force_update() of the session has been called with a button held, a
\* colour and a brightness set and a fade asked for
C39_Witness ==
    /\ op.name = "force_update"
    /\ cross
    /\ touchpad.led_r = 255 /\ touchpad.fade_to_blue
    /\ brightness["player_led"] = FrameLevel
    /\ \A c \in OutputComponents : dirty[c]

====
